---------------------------- MODULE Spec2Model ----------------------------
(***************************************************************************)
(* Multi-factor scoring and weighted selection of the fuzzer:               *)
(* ScoreTracker, TimeStats, KernelLogMatcher, WeightedSelector and the      *)
(* part of Fuzzer.processResult that drives them.                           *)
(*                                                                          *)
(* float64 values are modelled in fixed point: a score s is the integer     *)
(* s * SCALE.  Durations are integers (microseconds in the source).         *)
(***************************************************************************)
EXTENDS Integers, Sequences, FiniteSets, TLC

VARIABLES
    config,             \* *ScoreConfig shared by Fuzzer.Config and ScoreTracker.config
    scores,             \* ScoreTracker.scores: prog hash -> ProgScore
    pcHitCounts,        \* ScoreTracker.pcHitCounts: pc -> hits
    pathFrequency,      \* ScoreTracker.pathFrequency: signal signature -> frequency
    execTimeStats,      \* ScoreTracker.execTimeStats: the TimeStats record
    patterns,           \* ScoreTracker.logMatcher.patterns
    weights,            \* WeightedSelector.weights: prog hash -> weight
    cumulativeWeights,  \* WeightedSelector.cumulativeWeights
    progHashes,         \* WeightedSelector.progHashes
    needRebuild,        \* WeightedSelector.needRebuild
    scoreMetrics,       \* Fuzzer.scoreMetrics
    now,                \* the clock read by time.Now()
    ret,                \* what the last call returned and what it read
    scoredWith,         \* history: pc -> number of scored outcomes whose signal holds pc
    scoredSig,          \* history: signature -> number of scored outcomes with it
    lastScored,         \* history: prog hash -> score returned by its last scoring
    calls,              \* history: number of calls made so far
    ctl,                \* goroutine -> the statement it is about to execute
    local,              \* goroutine -> its arguments, locals and return address
    locks,              \* the sync.RWMutex of each object: its writer and readers
    observed,           \* history: the observations handed to ScoreMetrics
    handed,             \* the *ScoreMetrics a collaborator got from GetScoreMetrics
    queue,              \* a WeightedQueue: requests, weights and totalWeight
    options,            \* Fuzzer.Config: Snapshot and Collide
    corpus,             \* Fuzzer.Config.Corpus: the identities of its programs
    candidateQueue,     \* Fuzzer.candidateQueue: requests waiting for an executor
    executing,          \* requests an executor took from Fuzzer.Next()
    statCandidates,     \* Fuzzer.statCandidates
    maxSignal,          \* Fuzzer.Cover.maxSignal
    jobs,               \* jobs handed to startJob
    smash,              \* the smashJob being run
    triageJob           \* the triageJob being run

vars == <<config, scores, pcHitCounts, pathFrequency, execTimeStats, patterns,
          weights, cumulativeWeights, progHashes, needRebuild, scoreMetrics,
          now, ret, scoredWith, scoredSig, lastScored, calls,
          ctl, local, locks, observed, handed, queue, options, corpus,
          candidateQueue, executing, statCandidates, maxSignal, jobs, smash,
          triageJob>>

trackerVars  == <<scores, pcHitCounts, pathFrequency, execTimeStats, patterns>>
selectorVars == <<weights, cumulativeWeights, progHashes, needRebuild>>
historyVars  == <<scoredWith, scoredSig, lastScored>>
threadVars   == <<ctl, local, locks>>
jobVars      == <<smash, triageJob>>
loopVars     == <<options, corpus, candidateQueue, executing, statCandidates,
                 maxSignal, jobs, jobVars>>
fuzzerVars   == <<queue, loopVars>>

-----------------------------------------------------------------------------
(* Bounds of the model *)

MaxCalls == 2           \* state-changing calls made in one behaviour
MaxTopCalls == 3        \* the same, where three identities have to be held
MaxPC == 2              \* coverage elements are 1..MaxPC
MaxLimit == 4           \* limits passed to GetTopScoredProgs are 0..MaxLimit
MaxLatency == 1         \* score calculation latencies are 1..MaxLatency
MaxExecTime == 2        \* elapsed times are 0..MaxExecTime
MaxFill == 100          \* a filling buffer starts at most MaxFill short of full
MaxProcs == 2           \* requests that executors hold at one time
MaxExecs == 5           \* executions of candidates in one behaviour
MaxJobs == 1            \* smash and triage jobs run in one behaviour

-----------------------------------------------------------------------------
(* Fixed point *)

SCALE == 1000

Min(a, b) == IF a < b THEN a ELSE b
Max(a, b) == IF a > b THEN a ELSE b
Abs(a) == IF a < 0 THEN -a ELSE a

\* math.E
E == (2718 * SCALE) \div 1000

\* Working precision of Log.
LogPrec == 32 * SCALE

RECURSIVE LogSeries(_, _, _, _)
LogSeries(term, y2, k, acc) ==
    IF term = 0 THEN acc
    ELSE LogSeries((term * y2) \div LogPrec, y2, k + 1, acc + term \div (2 * k + 1))

\* math.Log(x) for x >= 1.0: ln x = 2 artanh((x-1)/(x+1)), summed until the
\* terms vanish at the working precision; ln x = ln(x/2) + ln 2 brings a
\* large x into the range where the products fit the integers of the checker.
RECURSIVE Log(_)
Log(x) ==
    IF x >= 16 * SCALE THEN Log(x \div 2) + Log(2 * SCALE)
    ELSE LET y   == ((x - SCALE) * LogPrec) \div (x + SCALE)
             y2  == (y * y) \div LogPrec
             sum == LogSeries(y, y2, 0, 0)
         IN  (2 * sum * SCALE + LogPrec \div 2) \div LogPrec

RECURSIVE SqrtSearch(_, _, _)
SqrtSearch(v, lo, hi) ==
    IF lo >= hi THEN lo
    ELSE LET mid == (lo + hi + 1) \div 2
         IN  IF mid * mid <= v THEN SqrtSearch(v, mid, hi)
                               ELSE SqrtSearch(v, lo, mid - 1)

\* math.Sqrt on a value held in SCALE*SCALE units, result in SCALE units.
Sqrt(v) == SqrtSearch(v, 0, 40000)

RECURSIVE SumSeq(_)
SumSeq(s) == IF s = <<>> THEN 0 ELSE Head(s) + SumSeq(Tail(s))

\* All orders in which the keys of a Go map can be visited by range.
Orders(S) == {s \in [1..Cardinality(S) -> S] : \A i, j \in DOMAIN s : i # j => s[i] # s[j]}


RECURSIVE SortedSeq(_)
SortedSeq(S) ==
    IF S = {} THEN <<>>
    ELSE LET m == CHOOSE x \in S : \A y \in S : x <= y
         IN  <<m>> \o SortedSeq(S \ {m})

-----------------------------------------------------------------------------
(* KernelLogMatcher *)

IsSpace(c) == c \in {" ", "\t"}

RECURSIVE TrimLeft(_)
TrimLeft(s) ==
    IF Len(s) > 0 /\ IsSpace(SubSeq(s, 1, 1)) THEN TrimLeft(SubSeq(s, 2, Len(s))) ELSE s

RECURSIVE TrimRight(_)
TrimRight(s) ==
    IF Len(s) > 0 /\ IsSpace(SubSeq(s, Len(s), Len(s)))
    THEN TrimRight(SubSeq(s, 1, Len(s) - 1)) ELSE s

\* strings.TrimSpace
TrimSpace(s) == TrimRight(TrimLeft(s))

\* strings.Contains
Contains(s, sub) ==
    \E i \in 1..(Len(s) - Len(sub) + 1) : SubSeq(s, i, i + Len(sub) - 1) = sub

RECURSIVE SplitDotStar(_, _, _)
SplitDotStar(regex, start, i) ==
    IF i > Len(regex) THEN <<SubSeq(regex, start, Len(regex))>>
    ELSE IF i < Len(regex) /\ SubSeq(regex, i, i + 1) = ".*"
         THEN <<SubSeq(regex, start, i - 1)>> \o SplitDotStar(regex, i + 2, i + 2)
         ELSE SplitDotStar(regex, start, i + 1)

\* regexp.Compile for the expressions of the pattern table: literal text
\* separated by ".*".  The compiled form is the sequence of literals.
Compile(regex) == SplitDotStar(regex, 1, 1)

RECURSIVE MatchFrom(_, _, _, _)
MatchFrom(pieces, k, line, from) ==
    IF k > Len(pieces) THEN TRUE
    ELSE IF pieces[k] = "" THEN MatchFrom(pieces, k + 1, line, from)
    ELSE \E i \in from..(Len(line) - Len(pieces[k]) + 1) :
            /\ SubSeq(line, i, i + Len(pieces[k]) - 1) = pieces[k]
            /\ MatchFrom(pieces, k + 1, line, i + Len(pieces[k]))

\* Regexp.MatchString: an unanchored match anywhere in the line.
MatchString(pattern, line) == MatchFrom(pattern, 1, line, 1)

LogPattern(regex, score, description) ==
    [Pattern |-> Compile(regex), Score |-> score, Description |-> description]

\* Scores of the table are written in hundredths.
Pct(n) == (n * SCALE) \div 100

initializePatterns ==
    << LogPattern("KASAN:.*", Pct(100), "KASAN memory error"),
       LogPattern("AddressSanitizer:.*", Pct(100), "AddressSanitizer error"),
       LogPattern("kernel BUG at.*", Pct(90), "Kernel BUG"),
       LogPattern("Kernel panic.*", Pct(90), "Kernel panic"),
       LogPattern("Oops:.*", Pct(80), "Kernel Oops"),
       LogPattern("general protection fault.*", Pct(80), "General protection fault"),
       LogPattern("page fault.*", Pct(70), "Page fault"),
       LogPattern("double fault.*", Pct(90), "Double fault"),
       LogPattern("stack segment.*", Pct(80), "Stack segment fault"),
       LogPattern("possible deadlock.*", Pct(70), "Possible deadlock"),
       LogPattern("lockdep.*", Pct(60), "Lockdep warning"),
       LogPattern("sleeping function called from invalid context.*", Pct(60), "Invalid sleep context"),
       LogPattern("rcu_.*stall.*", Pct(60), "RCU stall"),
       LogPattern("RCU.*", Pct(50), "RCU related"),
       LogPattern("WARNING:.*", Pct(50), "Kernel warning"),
       LogPattern("WARN_ON.*", Pct(50), "WARN_ON triggered"),
       LogPattern("memory leak.*", Pct(60), "Memory leak"),
       LogPattern("refcount_t.*", Pct(60), "Reference count error"),
       LogPattern("EXT4-fs error.*", Pct(40), "EXT4 filesystem error"),
       LogPattern("XFS.*error.*", Pct(40), "XFS filesystem error"),
       LogPattern("net.*warning.*", Pct(30), "Network warning"),
       LogPattern("TCP.*error.*", Pct(30), "TCP error"),
       LogPattern("device.*error.*", Pct(30), "Device error"),
       LogPattern("driver.*warning.*", Pct(20), "Driver warning"),
       LogPattern("ERROR:.*", Pct(40), "General error"),
       LogPattern("error.*", Pct(20), "Generic error") >>

\* The loop over the patterns for one line; acc = [maxScore, matchedPatterns].
RECURSIVE MatchPatterns(_, _, _, _)
MatchPatterns(pats, k, log, acc) ==
    IF k > Len(pats) THEN acc
    ELSE LET pattern == pats[k]
             key == pattern.Description
             hit == MatchString(pattern.Pattern, log) /\ key \notin acc.matchedPatterns
             acc1 == IF hit
                     THEN [maxScore |-> Max(acc.maxScore, pattern.Score),
                           matchedPatterns |-> acc.matchedPatterns \cup {key}]
                     ELSE acc
         IN  MatchPatterns(pats, k + 1, log, acc1)

\* The loop over the log lines.
RECURSIVE MatchLines(_, _, _, _)
MatchLines(pats, logs, i, acc) ==
    IF i > Len(logs) THEN acc
    ELSE LET log == TrimSpace(logs[i])
         IN  IF log = "" THEN MatchLines(pats, logs, i + 1, acc)
             ELSE MatchLines(pats, logs, i + 1, MatchPatterns(pats, 1, log, acc))

\* The loops with every match counted, whatever its description.
RECURSIVE CountMatches(_, _, _, _)
CountMatches(pats, logs, i, k) ==
    IF i > Len(logs) THEN 0
    ELSE IF k > Len(pats) THEN CountMatches(pats, logs, i + 1, 1)
    ELSE (IF TrimSpace(logs[i]) # "" /\ MatchString(pats[k].Pattern, TrimSpace(logs[i]))
          THEN 1 ELSE 0) + CountMatches(pats, logs, i, k + 1)

\* CalculateScore with the bonus taken from the number of matches.
CalculateScore_CountsMatches(pats, logs) ==
    IF Len(logs) = 0 THEN 0
    ELSE LET acc == MatchLines(pats, logs, 1, [maxScore |-> 0, matchedPatterns |-> {}])
             n == CountMatches(pats, logs, 1, 1)
             bonusScore == IF n > 1 THEN ((n - 1) * SCALE) \div 10 ELSE 0
             totalScore == acc.maxScore + bonusScore
         IN  IF totalScore > SCALE THEN SCALE ELSE totalScore

\* CalculateScore without the bonus.
CalculateScore_NoBonus(pats, logs) ==
    IF Len(logs) = 0 THEN 0
    ELSE MatchLines(pats, logs, 1, [maxScore |-> 0, matchedPatterns |-> {}]).maxScore

\* CalculateScore without the final clamp.
CalculateScore_NoClamp(pats, logs) ==
    IF Len(logs) = 0 THEN 0
    ELSE LET acc == MatchLines(pats, logs, 1, [maxScore |-> 0, matchedPatterns |-> {}])
             n == Cardinality(acc.matchedPatterns)
             bonusScore == IF n > 1 THEN ((n - 1) * SCALE) \div 10 ELSE 0
         IN  acc.maxScore + bonusScore

CalculateScore(pats, logs) ==
    IF Len(logs) = 0 THEN 0
    ELSE LET acc == MatchLines(pats, logs, 1, [maxScore |-> 0, matchedPatterns |-> {}])
             n == Cardinality(acc.matchedPatterns)
             bonusScore == IF n > 1 THEN ((n - 1) * SCALE) \div 10 ELSE 0
             totalScore == acc.maxScore + bonusScore
         IN  IF totalScore > SCALE THEN SCALE ELSE totalScore

RECURSIVE UnbalancedFrom(_, _, _)
UnbalancedFrom(regex, i, depth) ==
    IF i > Len(regex) THEN depth # 0
    ELSE LET c == SubSeq(regex, i, i)
         IN  IF c = "(" THEN UnbalancedFrom(regex, i + 1, depth + 1)
             ELSE IF c = ")" THEN depth = 0 \/ UnbalancedFrom(regex, i + 1, depth - 1)
             ELSE UnbalancedFrom(regex, i + 1, depth)

\* The error of regexp.Compile: a parenthesis without its partner.
CompileError(regex) == UnbalancedFrom(regex, 1, 0)

\* AddCustomPattern with the new entry put in front of the table.
AddCustomPattern_Prepends(pats, regex, score, description) ==
    IF CompileError(regex) THEN [err |-> TRUE, patterns |-> pats]
    ELSE [err |-> FALSE,
          patterns |-> <<LogPattern(regex, score, description)>> \o pats]

AddCustomPattern(pats, regex, score, description) ==
    IF CompileError(regex) THEN [err |-> TRUE, patterns |-> pats]
    ELSE [err |-> FALSE,
          patterns |-> Append(pats, LogPattern(regex, score, description))]

-----------------------------------------------------------------------------
(* TimeStats *)

\* ts.count < 10 in CalculateAnomalyScore
MinSamples == 10

\* maxSamples set by NewTimeStats
DefaultMaxSamples == 10000

NewTimeStats ==
    [samples |-> <<>>, mean |-> 0, variance |-> 0, stdDev |-> 0, count |-> 0,
     needRecalc |-> TRUE, maxSamples |-> DefaultMaxSamples]

AddSample(ts, execTime) ==
    LET appended == Append(ts.samples, execTime)
        half == ts.maxSamples \div 2
        \* copy(samples, samples[half:]) then samples[:half]
        kept == IF Len(appended) > ts.maxSamples
                THEN SubSeq(appended, half + 1, half + half)
                ELSE appended
    IN  [ts EXCEPT !.samples = kept, !.count = ts.count + 1, !.needRecalc = TRUE]

RECURSIVE SumSquares(_, _)
SumSquares(s, mean) ==
    IF s = <<>> THEN 0
    ELSE LET diff == Head(s) * SCALE - mean
         IN  diff * diff + SumSquares(Tail(s), mean)

\* mean is held in SCALE units, variance in SCALE*SCALE units.
recalculateStats(ts) ==
    IF Len(ts.samples) = 0 THEN ts
    ELSE LET n == Len(ts.samples)
             mean == (SumSeq(ts.samples) * SCALE) \div n
             variance == SumSquares(ts.samples, mean) \div n
         IN  [ts EXCEPT !.mean = mean, !.variance = variance,
                        !.stdDev = Sqrt(variance), !.needRecalc = FALSE]

\* CalculateAnomalyScore without the final math.Min(..., 1.0).
CalculateAnomalyScore_Unclamped(ts, execTime) ==
    IF ts.count < MinSamples THEN [score |-> 0, ts |-> ts]
    ELSE LET ts1 == IF ts.needRecalc THEN recalculateStats(ts) ELSE ts
         IN  IF ts1.stdDev = 0 THEN [score |-> 0, ts |-> ts1]
             ELSE LET zScore == (Abs(execTime * SCALE - ts1.mean) * SCALE) \div ts1.stdDev
                  IN  [score |-> zScore \div 2, ts |-> ts1]

\* CalculateAnomalyScore without the test of ts.stdDev == 0: the division
\* gives +Inf (NaN when execTime is the mean), and math.Min(+Inf/2, 1.0) = 1.0.
CalculateAnomalyScore_NoZeroDeviationTest(ts, execTime) ==
    IF ts.count < MinSamples THEN [score |-> 0, ts |-> ts]
    ELSE LET ts1 == IF ts.needRecalc THEN recalculateStats(ts) ELSE ts
         IN  IF ts1.stdDev = 0
             THEN [score |-> IF execTime * SCALE = ts1.mean THEN 0 ELSE SCALE, ts |-> ts1]
             ELSE LET zScore == (Abs(execTime * SCALE - ts1.mean) * SCALE) \div ts1.stdDev
                  IN  [score |-> Min(zScore \div 2, SCALE), ts |-> ts1]

\* CalculateAnomalyScore with ts.count <= 10 for ts.count < 10.
CalculateAnomalyScore_OffByOneThreshold(ts, execTime) ==
    IF ts.count <= MinSamples THEN [score |-> 0, ts |-> ts]
    ELSE LET ts1 == IF ts.needRecalc THEN recalculateStats(ts) ELSE ts
         IN  IF ts1.stdDev = 0 THEN [score |-> 0, ts |-> ts1]
             ELSE LET zScore == (Abs(execTime * SCALE - ts1.mean) * SCALE) \div ts1.stdDev
                  IN  [score |-> Min(zScore \div 2, SCALE), ts |-> ts1]

\* Returns the score and the TimeStats left behind (the cached statistics
\* are recomputed when stale).  Sequential execution: nothing runs between
\* the release of the read lock and the recomputation.
CalculateAnomalyScore(ts, execTime) ==
    IF ts.count < MinSamples THEN [score |-> 0, ts |-> ts]
    ELSE LET ts1 == IF ts.needRecalc THEN recalculateStats(ts) ELSE ts
         IN  IF ts1.stdDev = 0 THEN [score |-> 0, ts |-> ts1]
             ELSE LET zScore == (Abs(execTime * SCALE - ts1.mean) * SCALE) \div ts1.stdDev
                  IN  [score |-> Min(zScore \div 2, SCALE), ts |-> ts1]

GetStats(ts) ==
    LET ts1 == IF ts.needRecalc THEN recalculateStats(ts) ELSE ts
    IN  [mean |-> ts1.mean, stdDev |-> ts1.stdDev, count |-> ts1.count, ts |-> ts1]

-----------------------------------------------------------------------------
(* Inputs *)

Nil == "nil"

\* Input identities (prog.Hash()).
Progs == {"p1", "p2"}
TopProgs == {"p1", "p2", "p3"}

PCs == 1..MaxPC

\* signal.Signal values; nil and the empty signal are both {}.
Signals == SUBSET PCs

ExecTimes == 0..MaxExecTime

LogInputs == { <<>>, <<"KASAN: x", "  ">> }

\* Signal.String(): the signature of a signal set is its sorted element list.
SignalString(sig) == SortedSeq(sig)

Signatures == {SignalString(sig) : sig \in Signals \ {{}}}

\* ExecutionResult: the fields the scoring reads.
ExecutionResult(sig, execTime, kernelLogs) ==
    [Signal |-> sig, ExecTime |-> execTime, KernelLogs |-> kernelLogs]

\* Outcomes of runs that were not measured and logged nothing, and of runs
\* that were measured and logged; two of the signals overlap.
ExecutionResults ==
    { ExecutionResult({}, 0, <<>>),
      ExecutionResult({1}, 0, <<>>),
      ExecutionResult({2}, 1, <<"KASAN: x", "  ">>),
      ExecutionResult({1, 2}, 1, <<"KASAN: x", "  ">>) }

\* Outcomes with different totals and a tie, for the ranking of the cache.
TopResults ==
    { ExecutionResult({}, 0, <<>>), ExecutionResult({1}, 0, <<>>),
      ExecutionResult({2}, 1, <<"KASAN: x">>) }

ScoreConfig(cov, rar, klog, tim, enabled) ==
    [CoverageWeight |-> cov, RarityWeight |-> rar, KernelLogWeight |-> klog,
     TimeAnomalyWeight |-> tim, Enabled |-> enabled]

DefaultScoreConfig == ScoreConfig(Pct(40), Pct(30), Pct(20), Pct(10), TRUE)

\* &ScoreConfig{Enabled: false}
DisabledScoreConfig == ScoreConfig(0, 0, 0, 0, FALSE)

ConfigInputs == {DefaultScoreConfig, DisabledScoreConfig,
                 [DefaultScoreConfig EXCEPT !.Enabled = FALSE]}

-----------------------------------------------------------------------------
(* ScoreTracker *)

ProgScore(total, coverage, rarity, kernelLog, timeAnomaly, timestamp) ==
    [Total |-> total, Coverage |-> coverage, Rarity |-> rarity,
     KernelLog |-> kernelLog, TimeAnomaly |-> timeAnomaly, Timestamp |-> timestamp]

\* &ProgScore{Total: 0.5}
NeutralScore == ProgScore(SCALE \div 2, 0, 0, 0, 0, 0)

NewScoreTracker ==
    [scores |-> <<>>,
     pcHitCounts |-> [pc \in PCs |-> 0],
     pathFrequency |-> [k \in Signatures |-> 0],
     execTimeStats |-> NewTimeStats,
     patterns |-> initializePatterns]

\* The loop over result.Signal.ToRaw(); the elements of a signal are distinct.
RECURSIVE CoverageLoop(_, _, _, _)
CoverageLoop(raw, i, hits, newPCs) ==
    IF i > Len(raw) THEN [pcHitCounts |-> hits, newPCs |-> newPCs]
    ELSE LET pc == raw[i]
         IN  CoverageLoop(raw, i + 1, [hits EXCEPT ![pc] = @ + 1],
                          IF hits[pc] = 0 THEN newPCs \cup {pc} ELSE newPCs)

\* calculateCoverageScore with st.pcHitCounts[pc]++ moved under the
\* pcHitCounts[pc] == 0 test.
calculateCoverageScore_CountsOnlyNew(hits, result) ==
    IF result.Signal = {} THEN [score |-> 0, pcHitCounts |-> hits, newPCs |-> {}]
    ELSE LET loop == CoverageLoop(SortedSeq(result.Signal), 1, hits, {})
             newCoverage == Cardinality(loop.newPCs)
             totalCoverage == Cardinality(result.Signal)
             newCoverageRatio == (newCoverage * SCALE) \div totalCoverage
             score == (Log(SCALE + (newCoverageRatio * E) \div SCALE) * SCALE)
                         \div Log(SCALE + E)
         IN  [score |-> Min(score, SCALE),
              pcHitCounts |-> [pc \in DOMAIN hits |->
                                  IF pc \in loop.newPCs THEN 1 ELSE hits[pc]],
              newPCs |-> loop.newPCs]

calculateCoverageScore(hits, result) ==
    IF result.Signal = {} THEN [score |-> 0, pcHitCounts |-> hits, newPCs |-> {}]
    ELSE LET loop == CoverageLoop(SortedSeq(result.Signal), 1, hits, {})
             newCoverage == Cardinality(loop.newPCs)
             totalCoverage == Cardinality(result.Signal)
             newCoverageRatio == (newCoverage * SCALE) \div totalCoverage
             score == (Log(SCALE + (newCoverageRatio * E) \div SCALE) * SCALE)
                         \div Log(SCALE + E)
         IN  [score |-> Min(score, SCALE), pcHitCounts |-> loop.pcHitCounts,
              newPCs |-> loop.newPCs]

\* The score for a frequency read from pathFrequency.
RarityOfFrequency(frequency) ==
    IF frequency = 0 THEN SCALE
    ELSE Min((SCALE * SCALE) \div (SCALE + Log(frequency * SCALE)), SCALE)

calculateRarityScore(freq, result) ==
    IF result.Signal = {} THEN [score |-> 0, frequency |-> 0]
    ELSE LET signalKey == SignalString(result.Signal)
             frequency == freq[signalKey]
         IN  [score |-> RarityOfFrequency(frequency), frequency |-> frequency]

calculateKernelLogScore(pats, result) ==
    IF Len(result.KernelLogs) = 0 THEN 0
    ELSE CalculateScore(pats, result.KernelLogs)

calculateTimeAnomalyScore(ts, result) ==
    IF result.ExecTime = 0 THEN [score |-> 0, ts |-> ts]
    ELSE CalculateAnomalyScore(ts, result.ExecTime)

\* updateStatistics feeding the elapsed time to TimeStats also when it is 0.
updateStatistics_AlwaysAddsSample(freq, ts, result) ==
    [pathFrequency |->
        IF result.Signal # {}
        THEN [freq EXCEPT ![SignalString(result.Signal)] = @ + 1]
        ELSE freq,
     execTimeStats |-> AddSample(ts, result.ExecTime)]

updateStatistics(freq, ts, result) ==
    [pathFrequency |->
        IF result.Signal # {}
        THEN [freq EXCEPT ![SignalString(result.Signal)] = @ + 1]
        ELSE freq,
     execTimeStats |->
        IF result.ExecTime > 0 THEN AddSample(ts, result.ExecTime) ELSE ts]

\* The weighted total of the four dimensions.
WeightedTotal(cfg, coverage, rarity, kernelLog, timeAnomaly) ==
    (cfg.CoverageWeight * coverage + cfg.RarityWeight * rarity
        + cfg.KernelLogWeight * kernelLog + cfg.TimeAnomalyWeight * timeAnomaly)
    \div SCALE

\* UpdateScore with updateStatistics called before the dimensions are computed.
UpdateScoreLocked_StatsFirst(cfg, st, t, progHash, result) ==
    LET stats0 == updateStatistics(st.pathFrequency, st.execTimeStats, result)
        cov == calculateCoverageScore(st.pcHitCounts, result)
        rar == calculateRarityScore(stats0.pathFrequency, result)
        kernelLogScore == calculateKernelLogScore(st.patterns, result)
        tim == calculateTimeAnomalyScore(stats0.execTimeStats, result)
        totalScore == WeightedTotal(cfg, cov.score, rar.score, kernelLogScore, tim.score)
        score == ProgScore(totalScore, cov.score, rar.score, kernelLogScore,
                           tim.score, t)
    IN  [score |-> score,
         st |-> [scores |-> [h \in DOMAIN st.scores \cup {progHash} |->
                               IF h = progHash THEN score ELSE st.scores[h]],
                 pcHitCounts |-> cov.pcHitCounts,
                 pathFrequency |-> stats0.pathFrequency,
                 execTimeStats |-> tim.ts,
                 patterns |-> st.patterns],
         frequency |-> rar.frequency,
         newPCs |-> cov.newPCs]

\* The part of UpdateScore that runs under st.mu: the score returned, the
\* tracker left behind and what the call read.
UpdateScoreLocked(cfg, st, t, progHash, result) ==
    LET cov == calculateCoverageScore(st.pcHitCounts, result)
        rar == calculateRarityScore(st.pathFrequency, result)
        kernelLogScore == calculateKernelLogScore(st.patterns, result)
        tim == calculateTimeAnomalyScore(st.execTimeStats, result)
        totalScore == WeightedTotal(cfg, cov.score, rar.score, kernelLogScore, tim.score)
        score == ProgScore(totalScore, cov.score, rar.score, kernelLogScore,
                           tim.score, t)
        stats == updateStatistics(st.pathFrequency, tim.ts, result)
    IN  [score |-> score,
         st |-> [scores |-> [h \in DOMAIN st.scores \cup {progHash} |->
                               IF h = progHash THEN score ELSE st.scores[h]],
                 pcHitCounts |-> cov.pcHitCounts,
                 pathFrequency |-> stats.pathFrequency,
                 execTimeStats |-> stats.execTimeStats,
                 patterns |-> st.patterns],
         frequency |-> rar.frequency,
         newPCs |-> cov.newPCs]

\* UpdateScore without the test of st.config.Enabled.
UpdateScore_IgnoresEnabled(cfg, st, t, progHash, result) ==
    UpdateScoreLocked(cfg, st, t, progHash, result)

\* ScoreTracker.UpdateScore on tracker st under config cfg at time t.
UpdateScore(cfg, st, t, progHash, result) ==
    IF ~cfg.Enabled
    THEN [score |-> NeutralScore, st |-> st, frequency |-> 0, newPCs |-> {}]
    ELSE UpdateScoreLocked(cfg, st, t, progHash, result)

\* GetScore returning a fresh ProgScore that carries only the cached total.
GetScore_TotalOnly(st, progHash) ==
    IF progHash \in DOMAIN st.scores
    THEN [NeutralScore EXCEPT !.Total = st.scores[progHash].Total]
    ELSE NeutralScore

GetScore(st, progHash) ==
    IF progHash \in DOMAIN st.scores THEN st.scores[progHash] ELSE NeutralScore

\* One pass of the inner loop of the sort: j runs from j to the end.
RECURSIVE SortInner(_, _, _)
SortInner(progs, i, j) ==
    IF j > Len(progs) THEN progs
    ELSE IF progs[i].score < progs[j].score
         THEN SortInner([progs EXCEPT ![i] = progs[j], ![j] = progs[i]], i, j + 1)
         ELSE SortInner(progs, i, j + 1)

RECURSIVE SortOuter(_, _)
SortOuter(progs, i) ==
    IF i > Len(progs) - 1 THEN progs
    ELSE SortOuter(SortInner(progs, i, i + 1), i + 1)

\* GetTopScoredProgs without the sort.
GetTopScoredProgs_Unsorted(st, order, limit) ==
    LET progs == [i \in DOMAIN order |-> [hash |-> order[i], score |-> st.scores[order[i]].Total]]
    IN  [i \in 1..Min(Len(progs), limit) |-> progs[i].hash]

\* GetTopScoredProgs when range visits the cache in the given order.
GetTopScoredProgs(st, order, limit) ==
    LET progs == [i \in DOMAIN order |-> [hash |-> order[i], score |-> st.scores[order[i]].Total]]
        sorted == SortOuter(progs, 1)
    IN  [i \in 1..Min(Len(sorted), limit) |-> sorted[i].hash]

-----------------------------------------------------------------------------
(* WeightedSelector *)

NewWeightedSelector ==
    [weights |-> <<>>, cumulativeWeights |-> <<>>, progHashes |-> <<>>,
     needRebuild |-> TRUE]

WeightInputs == {0 - SCALE \div 2, 0, SCALE \div 10, (9 * SCALE) \div 10}

\* Caller-supplied randomness u in [0,1).
RndInputs == {0, SCALE \div 2, SCALE - 1}

\* UpdateWeight without ws.needRebuild = true.
UpdateWeight_KeepsIndex(ws, progHash, weight) ==
    [ws EXCEPT !.weights = [h \in DOMAIN ws.weights \cup {progHash} |->
                               IF h = progHash THEN weight ELSE ws.weights[h]]]

UpdateWeight(ws, progHash, weight) ==
    [ws EXCEPT !.weights = [h \in DOMAIN ws.weights \cup {progHash} |->
                               IF h = progHash THEN weight ELSE ws.weights[h]],
               !.needRebuild = TRUE]

\* The loop of rebuildWeightTable when range visits the map in the given order.
RECURSIVE RebuildLoop(_, _, _, _, _, _)
RebuildLoop(wmap, order, i, cumulative, cw, ph) ==
    IF i > Len(order) THEN [cumulativeWeights |-> cw, progHashes |-> ph]
    ELSE LET hash == order[i]
             weight == wmap[hash]
         IN  IF weight > 0
             THEN RebuildLoop(wmap, order, i + 1, cumulative + weight,
                              Append(cw, cumulative + weight), Append(ph, hash))
             ELSE RebuildLoop(wmap, order, i + 1, cumulative, cw, ph)

\* rebuildWeightTable without the two truncations to [:0].
rebuildWeightTable_KeepsOldEntries(ws, order) ==
    LET built == RebuildLoop(ws.weights, order, 1, 0, ws.cumulativeWeights, ws.progHashes)
    IN  [ws EXCEPT !.cumulativeWeights = built.cumulativeWeights,
                   !.progHashes = built.progHashes,
                   !.needRebuild = FALSE]

rebuildWeightTable(ws, order) ==
    LET built == RebuildLoop(ws.weights, order, 1, 0, <<>>, <<>>)
    IN  [ws EXCEPT !.cumulativeWeights = built.cumulativeWeights,
                   !.progHashes = built.progHashes,
                   !.needRebuild = FALSE]

\* The binary search of SelectWeighted; indices are 1-based here.
RECURSIVE BinarySearch(_, _, _, _)
BinarySearch(cw, target, left, right) ==
    IF left < right
    THEN LET mid == (left + right) \div 2
         IN  IF cw[mid] < target THEN BinarySearch(cw, target, mid + 1, right)
                                 ELSE BinarySearch(cw, target, left, mid)
    ELSE left

\* SelectWeighted with right starting at len-2 instead of len-1.
SelectWeighted_ShortSearch(ws, order, rnd) ==
    LET ws1 == IF ws.needRebuild THEN rebuildWeightTable(ws, order) ELSE ws
        n == Len(ws1.cumulativeWeights)
    IN  IF n = 0 THEN [hash |-> "", ws |-> ws1]
        ELSE LET target == (rnd * ws1.cumulativeWeights[n]) \div SCALE
                 left == BinarySearch(ws1.cumulativeWeights, target, 1, Max(n - 1, 1))
             IN  [hash |-> ws1.progHashes[left], ws |-> ws1]

\* SelectWeighted with target = rnd, not scaled by the total weight.
SelectWeighted_UnscaledTarget(ws, order, rnd) ==
    LET ws1 == IF ws.needRebuild THEN rebuildWeightTable(ws, order) ELSE ws
        n == Len(ws1.cumulativeWeights)
    IN  IF n = 0 THEN [hash |-> "", ws |-> ws1]
        ELSE LET target == rnd
                 left == BinarySearch(ws1.cumulativeWeights, target, 1, n)
             IN  [hash |-> ws1.progHashes[left], ws |-> ws1]

\* SelectWeighted when a rebuild, if one is needed, visits the map in the
\* given order: the identity returned ("" for none) and the selector left behind.
SelectWeighted(ws, order, rnd) ==
    LET ws1 == IF ws.needRebuild THEN rebuildWeightTable(ws, order) ELSE ws
        n == Len(ws1.cumulativeWeights)
    IN  IF n = 0 THEN [hash |-> "", ws |-> ws1]
        ELSE LET target == (rnd * ws1.cumulativeWeights[n]) \div SCALE
                 left == BinarySearch(ws1.cumulativeWeights, target, 1, n)
             IN  [hash |-> ws1.progHashes[left], ws |-> ws1]

-----------------------------------------------------------------------------
(* ScoreMetrics *)

NewScoreMetrics ==
    [TotalRequests |-> 0, ScoreSelectedRequests |-> 0, AverageScore |-> 0,
     MaxScore |-> 0, MinScore |-> SCALE,
     AvgCoverageScore |-> 0, AvgRarityScore |-> 0, AvgKernelLogScore |-> 0,
     AvgTimeAnomalyScore |-> 0, TotalScoreCalculationTime |-> 0,
     TotalSmashJobs |-> 0, TotalSmashMutations |-> 0, SuccessfulMutations |-> 0,
     AverageSmashBaseScore |-> 0, LastUpdated |-> 0]

\* (avg*(n-1) + x) / n
RunningMean(avg, n, x) == (avg * (n - 1) + x) \div n

\* UpdateMetrics without the special case of the first request.
UpdateMetrics_NoFirstCase(sm, score, scoreSelected, calculationTime, t) ==
    LET n == sm.TotalRequests + 1
    IN  [sm EXCEPT
            !.TotalRequests = n,
            !.ScoreSelectedRequests = IF scoreSelected THEN @ + 1 ELSE @,
            !.AverageScore = RunningMean(@, n, score),
            !.MaxScore = Max(@, score),
            !.MinScore = Min(@, score),
            !.TotalScoreCalculationTime = @ + calculationTime,
            !.LastUpdated = t]

UpdateMetrics(sm, score, scoreSelected, calculationTime, t) ==
    LET n == sm.TotalRequests + 1
    IN  [sm EXCEPT
            !.TotalRequests = n,
            !.ScoreSelectedRequests = IF scoreSelected THEN @ + 1 ELSE @,
            !.AverageScore = IF n = 1 THEN score ELSE RunningMean(@, n, score),
            !.MaxScore = IF n = 1 THEN score ELSE Max(@, score),
            !.MinScore = IF n = 1 THEN score ELSE Min(@, score),
            !.TotalScoreCalculationTime = @ + calculationTime,
            !.LastUpdated = t]

UpdateDimensionScores(sm, coverage, rarity, kernelLog, timeAnomaly) ==
    IF sm.TotalRequests = 1
    THEN [sm EXCEPT !.AvgCoverageScore = coverage, !.AvgRarityScore = rarity,
                    !.AvgKernelLogScore = kernelLog, !.AvgTimeAnomalyScore = timeAnomaly]
    ELSE LET count == sm.TotalRequests
         IN  [sm EXCEPT !.AvgCoverageScore = RunningMean(@, count, coverage),
                        !.AvgRarityScore = RunningMean(@, count, rarity),
                        !.AvgKernelLogScore = RunningMean(@, count, kernelLog),
                        !.AvgTimeAnomalyScore = RunningMean(@, count, timeAnomaly)]

-----------------------------------------------------------------------------
(* Fuzzer *)

\* signal.FromRaw: the set of the elements of a raw signal list.
FromRaw(raw) == {raw[i] : i \in DOMAIN raw}

\* queue.Request: Prog is Nil or an input identity.
Requests == [Prog : Progs \cup {Nil}]

\* queue.Result: the fields calculateProgScore reads.  Output is already
\* split into lines at "\n".
\* A pointer is <<>> when nil and <<v>> when it points to v.
Result(info, output) == [Info |-> info, Output |-> output]
ProgInfo(elapsed, extra) == <<[Elapsed |-> elapsed, Extra |-> extra]>>
CallInfo(rawSignal) == <<[Signal |-> rawSignal]>>

Results ==
    { Result(<<>>, <<>>),
      Result(ProgInfo(1, <<>>), <<"test output", " KASAN: x ">>),
      Result(ProgInfo(1, CallInfo(<<1, 1>>)), <<>>),
      Result(ProgInfo(0, CallInfo(<<2, 1>>)), <<"WARNING: x">>) }

LogKeywords == {"KASAN", "WARNING", "ERROR", "Oops", "panic"}

\* The loop collecting the kernel log lines of the output.
RECURSIVE ExtractKernelLogs(_, _)
ExtractKernelLogs(lines, i) ==
    IF i > Len(lines) THEN <<>>
    ELSE LET line == TrimSpace(lines[i])
             rest == ExtractKernelLogs(lines, i + 1)
         IN  IF line # "" /\ \E k \in LogKeywords : Contains(line, k)
             THEN <<line>> \o rest ELSE rest

\* The ExecutionResult built by calculateProgScore.
BuildExecResult(res) ==
    IF res.Info = <<>> THEN ExecutionResult({}, 0, <<>>)
    ELSE LET info == res.Info[1]
         IN  ExecutionResult(
                IF info.Extra # <<>> /\ Len(info.Extra[1].Signal) > 0
                THEN FromRaw(info.Extra[1].Signal) ELSE {},
                info.Elapsed,
                IF Len(res.Output) > 0 THEN ExtractKernelLogs(res.Output, 1) ELSE <<>>)

calculateProgScore(cfg, st, t, req, res) ==
    IF ~cfg.Enabled \/ req.Prog = Nil
    THEN [score |-> NeutralScore, st |-> st, frequency |-> 0, newPCs |-> {}]
    ELSE UpdateScore(cfg, st, t, req.Prog, BuildExecResult(res))

\* The scoring part of Fuzzer.processResult: the score, and the tracker,
\* metrics and selector left behind.
processResult(cfg, st, ws, sm, t, req, res, scoreCalculationTime) ==
    LET scored == calculateProgScore(cfg, st, t, req, res)
        progScore == scored.score
        sm1 == UpdateMetrics(sm, progScore.Total, FALSE, scoreCalculationTime, t)
        sm2 == UpdateDimensionScores(sm1, progScore.Coverage, progScore.Rarity,
                                     progScore.KernelLog, progScore.TimeAnomaly)
        ws1 == IF req.Prog # Nil THEN UpdateWeight(ws, req.Prog, progScore.Total) ELSE ws
    IN  [score |-> progScore, st |-> scored.st, ws |-> ws1, sm |-> sm2]

-----------------------------------------------------------------------------
(* WeightedQueue *)

\* NewScoringRequest: a request with its score, not yet selected.
NewScoringRequest(id, score) == [id |-> id, Score |-> score, ScoreSelected |-> FALSE]

NewWeightedQueue == [requests |-> <<>>, weights |-> <<>>, totalWeight |-> 0]

\* 0.01, the weight of a request whose score is not above 0
MinWeight == SCALE \div 100

\* SubmitScored storing the score as it is.
SubmitScored_KeepsScore(wq, req) ==
    [requests |-> Append(wq.requests, req),
     weights |-> Append(wq.weights, req.Score),
     totalWeight |-> wq.totalWeight + req.Score]

SubmitScored(wq, req) ==
    LET weight == IF req.Score <= 0 THEN MinWeight ELSE req.Score
    IN  [requests |-> Append(wq.requests, req),
         weights |-> Append(wq.weights, weight),
         totalWeight |-> wq.totalWeight + weight]

\* A sequence without its element at position i (positions from 1).
Without(s, i) == SubSeq(s, 1, i - 1) \o SubSeq(s, i + 1, Len(s))

\* removeAt filling the hole with the last element.
removeAt_MovesLast(wq, index) ==
    IF index < 1 \/ index > Len(wq.requests) THEN wq
    ELSE [requests |-> [i \in 1..(Len(wq.requests) - 1) |->
                           IF i = index THEN wq.requests[Len(wq.requests)]
                           ELSE wq.requests[i]],
          weights |-> [i \in 1..(Len(wq.weights) - 1) |->
                           IF i = index THEN wq.weights[Len(wq.weights)]
                           ELSE wq.weights[i]],
          totalWeight |-> wq.totalWeight - wq.weights[index]]

removeAt(wq, index) ==
    IF index < 1 \/ index > Len(wq.requests) THEN wq
    ELSE [requests |-> Without(wq.requests, index),
          weights |-> Without(wq.weights, index),
          totalWeight |-> wq.totalWeight - wq.weights[index]]

\* The loop of NextWeighted: the first position whose cumulative weight
\* reaches the target, 0 when there is none.
RECURSIVE SelectLoop(_, _, _, _)
SelectLoop(ws, i, cumulative, target) ==
    IF i > Len(ws) THEN 0
    ELSE IF cumulative + ws[i] >= target THEN i
    ELSE SelectLoop(ws, i + 1, cumulative + ws[i], target)

\* NextWeighted: the request returned (<<>> is nil), its position and the
\* queue left behind.
NextWeighted(wq, rnd) ==
    IF Len(wq.requests) = 0 \/ wq.totalWeight <= 0
    THEN [req |-> <<>>, index |-> 0, wq |-> wq]
    ELSE LET target == (rnd * wq.totalWeight) \div SCALE
             found == SelectLoop(wq.weights, 1, 0, target)
             index == IF found # 0 THEN found ELSE Len(wq.requests)
         IN  [req |-> <<[wq.requests[index] EXCEPT !.ScoreSelected = TRUE]>>,
              index |-> index,
              wq |-> removeAt(wq, index)]

Clear(wq) == [requests |-> <<>>, weights |-> <<>>, totalWeight |-> 0]

-----------------------------------------------------------------------------
(* The fuzzing loop *)

\* ProgFlags, a set of flag names.
CandidateFlags == SUBSET {"ProgFromCorpus", "ProgMinimized", "ProgSmashed"}

\* queue.Request with the flags and the attempt that prepare binds to its
\* OnDone callback.  weighted is history: mutateProgRequestWeighted made it.
Request(p, collectSignal, stat) ==
    [Prog |-> p, CollectSignal |-> collectSignal, Stat |-> stat,
     flags |-> {}, attempt |-> 0, weighted |-> FALSE]

\* Fuzzer.prepare
prepare(req, flags, attempt) == [req EXCEPT !.flags = flags, !.attempt = attempt]

\* genProgRequest: target.Generate gives the program newP.
genProgRequest(newP) == <<Request(newP, TRUE, "statExecGenerate")>>

\* mutateProgRequest: ChooseProgram returns nil on an empty corpus; the
\* mutation of the chosen program gives newP.
mutateProgRequest(programs, newP) ==
    IF programs = {} THEN <<>> ELSE <<Request(newP, TRUE, "statExecFuzz")>>

\* The highest number of programs the weighted path asks for.
TopLimit == 50

\* mutateProgRequestWeighted: order is the map iteration order inside
\* GetTopScoredProgs, k the draw of rnd.Intn(len(topProgs)).
mutateProgRequestWeighted(st, programs, order, k, newP) ==
    LET topProgs == GetTopScoredProgs(st, order, TopLimit)
    IN  IF Len(topProgs) = 0 THEN <<>>
        ELSE LET selectedHash == topProgs[(k % Len(topProgs)) + 1]
             IN  IF selectedHash \notin programs THEN <<>>
                 ELSE <<[Request(newP, TRUE, "statExecFuzz") EXCEPT !.weighted = TRUE]>>

\* What genFuzz draws from its random source: whether rnd.Float64() is
\* below 0.3 and below mutateRate, whether rnd.Intn(3) is 0, the index k,
\* and the programs that generation and mutation produce.
Draws == [weighted : BOOLEAN, mutate : BOOLEAN, collide : BOOLEAN, k : 0..1,
          newP : Progs]

\* genFuzz that returns what the weighted path returned when it was taken.
genFuzz_NoFallback(cfg, opts, st, programs, order, d) ==
    LET req1 == IF cfg.Enabled /\ d.weighted
                THEN mutateProgRequestWeighted(st, programs, order, d.k, d.newP)
                ELSE IF d.mutate /\ programs # {}
                     THEN mutateProgRequest(programs, d.newP)
                     ELSE genProgRequest(d.newP)
    IN  IF req1 = <<>> THEN <<>> ELSE <<prepare(req1[1], {}, 0)>>

\* Fuzzer.genFuzz: the request returned, <<>> for nil.
genFuzz(cfg, opts, st, programs, order, d) ==
    LET req1 == IF cfg.Enabled /\ d.weighted
                THEN mutateProgRequestWeighted(st, programs, order, d.k, d.newP)
                ELSE <<>>
        req2 == IF req1 = <<>> /\ d.mutate
                THEN mutateProgRequest(programs, d.newP) ELSE req1
        req3 == IF req2 = <<>> THEN genProgRequest(d.newP) ELSE req2
        req4 == IF opts.Collide /\ d.collide
                THEN <<[Request(req3[1].Prog, FALSE, "statExecCollide")
                          EXCEPT !.weighted = req3[1].weighted]>>
                ELSE req3
    IN  <<prepare(req4[1], {}, 0)>>

\* queue.Result with its status.
WithStatus(res, status) == [Info |-> res.Info, Output |-> res.Output, Status |-> status]

\* ProgInfo with per-call infos.
ProgInfoCalls(elapsed, callInfos, extra) ==
    <<[Elapsed |-> elapsed, Calls |-> callInfos, Extra |-> extra]>>

InfoCalls(info) == IF "Calls" \in DOMAIN info THEN info.Calls ELSE <<>>

\* NewFuzzer installs a filter that accepts every call when none is given.
NewInputFilter(callName) == TRUE

\* triageCall after triageProgCall: the new signal and the signals array.
TriageCall(newSignal, first) == [newSignal |-> newSignal, signals |-> <<first, {}, {}>>]

\* Cover.addRawMaxSignal: the elements that were not in the max signal.
addRawMaxSignal(maxSig, raw) ==
    [new |-> FromRaw(raw) \ maxSig, maxSignal |-> maxSig \cup FromRaw(raw)]

\* Fuzzer.triageProgCall on the pointer info of call: the max signal and the
\* triage map left behind.
triageProgCall(maxSig, info, call, triage) ==
    IF info = <<>> THEN [maxSignal |-> maxSig, triage |-> triage]
    ELSE LET added == addRawMaxSignal(maxSig, info[1].Signal)
         IN  IF added.new = {} \/ ~NewInputFilter(call)
             THEN [maxSignal |-> added.maxSignal, triage |-> triage]
             ELSE [maxSignal |-> added.maxSignal,
                   triage |-> [c \in DOMAIN triage \cup {call} |->
                                 IF c = call
                                 THEN TriageCall(added.new, FromRaw(info[1].Signal))
                                 ELSE triage[c]]]

\* for call, info := range res.Info.Calls { fuzzer.triageProgCall(...) }
RECURSIVE triageCalls(_, _, _, _)
triageCalls(maxSig, callInfos, i, triage) ==
    IF i > Len(callInfos) THEN [maxSignal |-> maxSig, triage |-> triage]
    ELSE LET r == triageProgCall(maxSig, callInfos[i], i - 1, triage)
         IN  triageCalls(r.maxSignal, callInfos, i + 1, r.triage)

\* The triage part of processResult.
triageResult(maxSig, req, res) ==
    LET dontTriage == "progInTriage" \in req.flags \/ res.Status = "Hanged"
    IN  IF req.CollectSignal /\ res.Info # <<>> /\ ~dontTriage
        THEN LET r == triageCalls(maxSig, InfoCalls(res.Info[1]), 1, <<>>)
             IN  triageProgCall(r.maxSignal, res.Info[1].Extra, -1, r.triage)
        ELSE [maxSignal |-> maxSig, triage |-> <<>>]

\* maxCandidateAttempts that gives a risky request its retries in every case.
maxCandidateAttempts_NoSnapshotCase(opts, res, risky) == IF risky THEN 2 ELSE 3

\* maxCandidateAttempts of processResult.
maxCandidateAttempts(opts, res, risky) ==
    IF risky THEN (IF opts.Snapshot \/ res.Status = "Hanged" THEN 0 ELSE 2)
    ELSE 3

\* The part of processResult after the scoring: the max signal, the triage
\* job started, the request enqueued again, the change of statCandidates
\* and the value returned.
finishResult(opts, maxSig, req, res, risky) ==
    LET tr == triageResult(maxSig, req, res)
        job == IF DOMAIN tr.triage # {}
               THEN {[Type |-> "triage", p |-> req.Prog, flags |-> req.flags,
                      calls |-> tr.triage]}
               ELSE {}
        again == /\ DOMAIN tr.triage = {}
                 /\ "ProgFromCorpus" \in req.flags
                 /\ req.attempt < maxCandidateAttempts(opts, res, risky)
    IN  [maxSignal |-> tr.maxSignal,
         job |-> job,
         enqueue |-> IF again THEN <<prepare(req, req.flags, req.attempt + 1)>> ELSE <<>>,
         candidates |-> IF ~again /\ "progCandidate" \in req.flags THEN 0 - 1 ELSE 0,
         done |-> ~again]

-----------------------------------------------------------------------------
(* smashJob *)

\* iters of smashJob.run: int(15 + baseScore*35) when scoring is enabled.
SmashDefaultIters == 25
SmashMinIters == 15
SmashItersRange == 35

smashIters(enabled, baseScore) ==
    IF enabled THEN (SmashMinIters * SCALE + baseScore * SmashItersRange) \div SCALE
    ELSE SmashDefaultIters

\* The mutation that an iteration of smashJob.run applies.
smashStrategy(enabled, baseScore) ==
    IF enabled /\ baseScore > Pct(70) THEN "conservative"
    ELSE IF enabled /\ baseScore < Pct(30) THEN "aggressive"
    ELSE "standard"

UpdateSmashStats(sm, successfulMutations, totalMutations, baseScore, t) ==
    LET n == sm.TotalSmashJobs + 1
    IN  [sm EXCEPT
            !.TotalSmashJobs = n,
            !.TotalSmashMutations = @ + totalMutations,
            !.SuccessfulMutations = @ + successfulMutations,
            !.AverageSmashBaseScore = IF n = 1 THEN baseScore
                                      ELSE RunningMean(@, n, baseScore),
            !.LastUpdated = t]

-----------------------------------------------------------------------------
(* State *)

Tracker ==
    [scores |-> scores, pcHitCounts |-> pcHitCounts, pathFrequency |-> pathFrequency,
     execTimeStats |-> execTimeStats, patterns |-> patterns]

Selector ==
    [weights |-> weights, cumulativeWeights |-> cumulativeWeights,
     progHashes |-> progHashes, needRebuild |-> needRebuild]

SetTracker(st) ==
    /\ scores' = st.scores
    /\ pcHitCounts' = st.pcHitCounts
    /\ pathFrequency' = st.pathFrequency
    /\ execTimeStats' = st.execTimeStats
    /\ patterns' = st.patterns

SetSelector(ws) ==
    /\ weights' = ws.weights
    /\ cumulativeWeights' = ws.cumulativeWeights
    /\ progHashes' = ws.progHashes
    /\ needRebuild' = ws.needRebuild

\* The history of the outcomes folded into the tracker: an outcome is scored
\* when UpdateScore ran with the scoring enabled.
RecordScored(scored, progHash, result, score) ==
    IF scored
    THEN /\ scoredWith' = [pc \in PCs |->
                              IF pc \in result.Signal THEN scoredWith[pc] + 1
                              ELSE scoredWith[pc]]
         /\ scoredSig' = [k \in Signatures |->
                              IF result.Signal # {} /\ k = SignalString(result.Signal)
                              THEN scoredSig[k] + 1 ELSE scoredSig[k]]
         /\ lastScored' = [h \in DOMAIN lastScored \cup {progHash} |->
                              IF h = progHash THEN score ELSE lastScored[h]]
    ELSE UNCHANGED historyVars

\* The goroutines that call into the scoring concurrently.
Workers == {"w1", "w2"}

\* A sync.RWMutex: the goroutine holding it for writing, if any, and the
\* goroutines holding it for reading.
Unlocked == [writer |-> <<>>, readers |-> {}]

\* The arguments and locals of a goroutine outside any call.
NoLocals ==
    [op |-> "none", prog |-> Nil, result |-> ExecutionResult({}, 0, <<>>),
     enabled |-> FALSE, hits |-> 0, newCoverage |-> 0, cfgs |-> <<>>, coverage |-> 0, rarity |-> 0,
     kernelLog |-> 0, timeAnomaly |-> 0, weighted |-> <<>>, score |-> <<>>,
     execTime |-> 0, tsBack |-> "idle", logs |-> <<>>, klmBack |-> "idle",
     usBack |-> "idle", n |-> 0, latency |-> 0, weight |-> 0, rnd |-> 0,
     order |-> <<>>, cumulative |-> 0, limit |-> 0, pattern |-> <<>>,
     raw |-> <<>>]

\* No goroutine is inside a call and no lock is held.
NoThreads ==
    /\ ctl = [w \in Workers |-> "idle"]
    /\ local = [w \in Workers |-> NoLocals]
    /\ locks = [st |-> Unlocked, ts |-> Unlocked, klm |-> Unlocked, ws |-> Unlocked]

\* No smash job is running.  enabled and strategies are history: the flag
\* read with the base score, and the strategies used so far.
NoSmash ==
    [pc |-> "none", p |-> Nil, baseScore |-> 0, iters |-> 0, i |-> 0,
     successfulMutations |-> 0, totalMutations |-> 0, started |-> 0,
     enabled |-> FALSE, strategies |-> {}]

\* No triage job is running.
NoTriage == [pc |-> "none"]

\* Fuzzer.Config without snapshot mode and without collisions.
DefaultOptions == [Snapshot |-> FALSE, Collide |-> FALSE]

\* The state of the fuzzer around the scoring core after construction.
NewFuzzerState(opts) ==
    /\ queue = NewWeightedQueue
    /\ options = opts
    /\ corpus = {}
    /\ candidateQueue = <<>>
    /\ executing = <<>>
    /\ statCandidates = 0
    /\ maxSignal = {}
    /\ jobs = {}
    /\ smash = NoSmash
    /\ triageJob = NoTriage

\* NewFuzzer with cfg.ScoreConfig = cfg: NewScoreTracker, NewWeightedSelector
\* and NewScoreMetrics.
ConstructWith(cfg, opts) ==
    /\ config = cfg
    /\ scores = NewScoreTracker.scores
    /\ pcHitCounts = NewScoreTracker.pcHitCounts
    /\ pathFrequency = NewScoreTracker.pathFrequency
    /\ execTimeStats = NewScoreTracker.execTimeStats
    /\ patterns = NewScoreTracker.patterns
    /\ weights = NewWeightedSelector.weights
    /\ cumulativeWeights = NewWeightedSelector.cumulativeWeights
    /\ progHashes = NewWeightedSelector.progHashes
    /\ needRebuild = NewWeightedSelector.needRebuild
    /\ scoreMetrics = NewScoreMetrics
    /\ now = 1
    /\ ret = [op |-> "new"]
    /\ scoredWith = [pc \in PCs |-> 0]
    /\ scoredSig = [k \in Signatures |-> 0]
    /\ lastScored = <<>>
    /\ calls = 0
    /\ NoThreads
    /\ observed = <<>>
    /\ handed = <<>>
    /\ NewFuzzerState(opts)

\* NewFuzzer with cfg.ScoreConfig = cfg
Construct(cfg) == ConstructWith(cfg, DefaultOptions)

Init == \E cfg \in ConfigInputs : Construct(cfg)

-----------------------------------------------------------------------------
(* Operations *)

CallUpdateScore(progHash, result, maxCalls) ==
    /\ UNCHANGED <<threadVars, observed, handed, fuzzerVars>>
    /\ calls < maxCalls
    /\ \E r \in {UpdateScore(config, Tracker, now, progHash, result)} :
           /\ SetTracker(r.st)
           /\ ret' = [op |-> "UpdateScore", prog |-> progHash, result |-> result,
                      enabled |-> config.Enabled, score |-> r.score,
                      frequency |-> r.frequency, newPCs |-> r.newPCs]
           /\ RecordScored(config.Enabled, progHash, result, r.score)
    /\ now' = IF config.Enabled THEN now + 1 ELSE now
    /\ calls' = calls + 1
    /\ UNCHANGED <<config, selectorVars, scoreMetrics>>

CallGetScore(progHash) ==
    /\ UNCHANGED <<threadVars, observed, handed, fuzzerVars>>
    /\ ret' = [op |-> "GetScore", prog |-> progHash, score |-> GetScore(Tracker, progHash)]
    /\ UNCHANGED <<config, trackerVars, selectorVars, scoreMetrics, now, historyVars, calls>>

CallGetTopScoredProgs(limit) ==
    /\ UNCHANGED <<threadVars, observed, handed, fuzzerVars>>
    /\ \E order \in Orders(DOMAIN scores) :
          ret' = [op |-> "GetTopScoredProgs", limit |-> limit,
                  result |-> GetTopScoredProgs(Tracker, order, limit)]
    /\ UNCHANGED <<config, trackerVars, selectorVars, scoreMetrics, now, historyVars, calls>>

CallUpdateWeight(progHash, weight) ==
    /\ UNCHANGED <<threadVars, observed, handed, fuzzerVars>>
    /\ calls < MaxTopCalls
    /\ SetSelector(UpdateWeight(Selector, progHash, weight))
    /\ ret' = [op |-> "UpdateWeight", prog |-> progHash, weight |-> weight]
    /\ calls' = calls + 1
    /\ UNCHANGED <<config, trackerVars, scoreMetrics, now, historyVars>>

CallSelectWeighted(rnd) ==
    /\ UNCHANGED <<threadVars, observed, handed, fuzzerVars>>
    /\ \E order \in Orders(DOMAIN weights) :
          \E r \in {SelectWeighted(Selector, order, rnd)} :
              /\ SetSelector(r.ws)
              /\ ret' = [op |-> "SelectWeighted", rnd |-> rnd, hash |-> r.hash]
    /\ UNCHANGED <<config, trackerVars, scoreMetrics, now, historyVars, calls>>

\* The scoring part of processResult; the triage and candidate bookkeeping
\* that follows it reads none of the state held here.
CallProcessResult(req, res, scoreCalculationTime) ==
    /\ UNCHANGED <<threadVars, observed, handed, fuzzerVars>>
    /\ calls < MaxCalls
    /\ \E r \in {processResult(config, Tracker, Selector, scoreMetrics, now, req, res,
                               scoreCalculationTime)} :
           /\ SetTracker(r.st)
           /\ SetSelector(r.ws)
           /\ scoreMetrics' = r.sm
           /\ ret' = [op |-> "processResult", prog |-> req.Prog,
                      result |-> BuildExecResult(res),
                      enabled |-> config.Enabled, score |-> r.score]
           /\ RecordScored(config.Enabled /\ req.Prog # Nil, req.Prog,
                           BuildExecResult(res), r.score)
    /\ now' = now + 1
    /\ calls' = calls + 1
    /\ UNCHANGED config

\* Fuzzer.UpdateScoreConfig: both pointers are set to the new config.
UpdateScoreConfig(cfg) ==
    /\ UNCHANGED <<threadVars, observed, handed, fuzzerVars>>
    /\ cfg # config
    /\ config' = cfg
    /\ ret' = [op |-> "UpdateScoreConfig"]
    /\ UNCHANGED <<trackerVars, selectorVars, scoreMetrics, now, historyVars, calls>>

UpdateScoreStep ==
    \E p \in Progs, result \in ExecutionResults : CallUpdateScore(p, result, MaxCalls)
GetScoreStep == \E p \in Progs : CallGetScore(p)
UpdateScoreConfigStep == \E cfg \in ConfigInputs : UpdateScoreConfig(cfg)

\* The ScoreTracker driven through its own interface.
Next ==
    \/ UpdateScoreStep
    \/ GetScoreStep
    \/ UpdateScoreConfigStep

Spec == Init /\ [][Next]_vars

TopUpdateScoreStep ==
    \E p \in TopProgs, result \in TopResults : CallUpdateScore(p, result, MaxTopCalls)
GetTopScoredProgsStep == \E limit \in 0..MaxLimit : CallGetTopScoredProgs(limit)

InitTop == Construct(DefaultScoreConfig)

\* The ranking of the score cache.
NextTop ==
    \/ TopUpdateScoreStep
    \/ GetTopScoredProgsStep

SpecTop == InitTop /\ [][NextTop]_vars

UpdateWeightStep == \E p \in TopProgs, w \in WeightInputs : CallUpdateWeight(p, w)
SelectWeightedStep == \E rnd \in RndInputs : CallSelectWeighted(rnd)

\* The WeightedSelector driven through its own interface.
NextSelector ==
    \/ UpdateWeightStep
    \/ SelectWeightedStep

SpecSelector == InitTop /\ [][NextSelector]_vars

ProcessResultStep ==
    \E req \in Requests, res \in Results, lat \in 1..MaxLatency :
        CallProcessResult(req, res, lat)

\* The fuzzer processing execution results.
NextFuzzer ==
    \/ ProcessResultStep
    \/ UpdateScoreConfigStep

SpecFuzzer == Init /\ [][NextFuzzer]_vars

\* Weights in [0,1] that sum to 1.0.
WeightSteps == {0, SCALE \div 2, SCALE}

ValidConfigs ==
    {DefaultScoreConfig} \cup
    {ScoreConfig(c, r, k, t, TRUE) : <<c, r, k, t>> \in
        {w \in WeightSteps \X WeightSteps \X WeightSteps \X WeightSteps :
            w[1] + w[2] + w[3] + w[4] = SCALE}}

InitScore == \E cfg \in ValidConfigs : Construct(cfg)

WarmTimes == 1..MaxExecTime

WarmResult(execTime) == ExecutionResult({1}, execTime, <<>>)

\* The first MinSamples outcomes, which bring the execution-time statistics
\* into use.  They come in non-decreasing order of time: the statistics do
\* not depend on the order of the samples.
WarmStep ==
    \E execTime \in WarmTimes :
        /\ \A i \in DOMAIN execTimeStats.samples : execTimeStats.samples[i] <= execTime
        /\ CallUpdateScore("p1", WarmResult(execTime), MinSamples)

ScoreResults == [Signal : Signals, ExecTime : ExecTimes, KernelLogs : LogInputs]

\* One more outcome, scored against the state the first ones left.
ScoreStep ==
    /\ calls = MinSamples
    /\ \E p \in Progs, result \in ScoreResults :
           CallUpdateScore(p, result, MinSamples + 1)

\* UpdateScore under any valid weights, on a tracker with and without prior
\* state.
NextScore ==
    \/ WarmStep
    \/ ScoreStep

SpecScore == InitScore /\ [][NextScore]_vars

\* Durations of TestTimeStats are held in units of 50 microseconds, which
\* divides them all; the anomaly score depends only on their ratios.
TimeUnit == 50

\* The seven samples of TestTimeStats, followed by the first three again.
TestTimes ==
    << 1000 \div TimeUnit, 1100 \div TimeUnit, 900 \div TimeUnit, 1200 \div TimeUnit,
       800 \div TimeUnit, 1300 \div TimeUnit, 950 \div TimeUnit,
       1000 \div TimeUnit, 1100 \div TimeUnit, 900 \div TimeUnit >>

NormalTime == 1000 \div TimeUnit
AnomalyTime == 5000 \div TimeUnit

QueryTimes == (0..(MaxExecTime + 1)) \cup {NormalTime, AnomalyTime}

CallAddSample(execTime, maxCalls) ==
    /\ UNCHANGED <<threadVars, observed, handed, fuzzerVars>>
    /\ calls < maxCalls
    /\ execTimeStats' = AddSample(execTimeStats, execTime)
    /\ ret' = [op |-> "AddSample", execTime |-> execTime]
    /\ calls' = calls + 1
    /\ UNCHANGED <<config, scores, pcHitCounts, pathFrequency, patterns, selectorVars,
                   scoreMetrics, now, historyVars>>

CallCalculateAnomalyScore(execTime) ==
    /\ UNCHANGED <<threadVars, observed, handed, fuzzerVars>>
    /\ \E r \in {CalculateAnomalyScore(execTimeStats, execTime)} :
           /\ execTimeStats' = r.ts
           /\ ret' = [op |-> "CalculateAnomalyScore", execTime |-> execTime,
                      score |-> r.score]
    /\ UNCHANGED <<config, scores, pcHitCounts, pathFrequency, patterns, selectorVars,
                   scoreMetrics, now, historyVars, calls>>

\* Samples come either as the test adds them, or from 1..MaxExecTime in
\* non-decreasing order (the statistics do not depend on the order).
AddSampleStep ==
    LET samples == execTimeStats.samples
        n == Len(samples)
    IN  \/ /\ n < Len(TestTimes)
           /\ samples = SubSeq(TestTimes, 1, n)
           /\ CallAddSample(TestTimes[n + 1], MinSamples + MaxCalls)
        \/ \E execTime \in 1..MaxExecTime :
              /\ \A i \in 1..n : samples[i] <= execTime
              /\ CallAddSample(execTime, MinSamples + MaxCalls)

CalculateAnomalyScoreStep == \E execTime \in QueryTimes : CallCalculateAnomalyScore(execTime)

\* The TimeStats driven through its own interface.
NextTime ==
    \/ AddSampleStep
    \/ CalculateAnomalyScoreStep

SpecTime == InitTop /\ [][NextTime]_vars

\* The statistics after n AddSample calls whose samples are the numbers of
\* their arrival, n within the capacity: AddSample has only appended.
FilledTimeStats(n) ==
    [NewTimeStats EXCEPT !.samples = [i \in 1..n |-> i], !.count = n]

\* The state after construction and n AddSample calls.
ConstructFilled(n) ==
    /\ config = DefaultScoreConfig
    /\ scores = NewScoreTracker.scores
    /\ pcHitCounts = NewScoreTracker.pcHitCounts
    /\ pathFrequency = NewScoreTracker.pathFrequency
    /\ execTimeStats = FilledTimeStats(n)
    /\ patterns = NewScoreTracker.patterns
    /\ weights = NewWeightedSelector.weights
    /\ cumulativeWeights = NewWeightedSelector.cumulativeWeights
    /\ progHashes = NewWeightedSelector.progHashes
    /\ needRebuild = NewWeightedSelector.needRebuild
    /\ scoreMetrics = NewScoreMetrics
    /\ now = 1
    /\ ret = [op |-> "new"]
    /\ scoredWith = [pc \in PCs |-> 0]
    /\ scoredSig = [k \in Signatures |-> 0]
    /\ lastScored = <<>>
    /\ calls = n
    /\ NoThreads
    /\ observed = <<>>
    /\ handed = <<>>
    /\ NewFuzzerState(DefaultOptions)

InitFill ==
    \E n \in (DefaultMaxSamples - MaxFill)..DefaultMaxSamples : ConstructFilled(n)

\* The sample buffer filled past its capacity; each sample is the number of
\* its arrival.
FillStep == CallAddSample(calls + 1, DefaultMaxSamples + MaxCalls)

NextFill ==
    \/ FillStep

SpecFill == InitFill /\ [][NextFill]_vars

\* The log lines given to the matcher: the lines of the unit test and of the
\* documented examples, a line of a category added later, and blank lines.
MatcherLines ==
    { "KASAN: use-after-free in foo", "KASAN: use-after-free", "KASAN: y",
      "WARNING: x", "WARNING: suspicious RCU usage", "possible deadlock",
      "ERROR: AddressSanitizer", "kernel BUG at", "watchdog: BUG: soft lockup",
      "normal log message", "  WARNING: x\t", "  ", "" }

\* The lines that are given in pairs.
PairLines ==
    { "KASAN: use-after-free", "KASAN: y", "WARNING: x",
      "WARNING: suspicious RCU usage", "possible deadlock", "  " }

MatcherLogs ==
    {<<>>} \cup {<<l>> : l \in MatcherLines}
           \cup {<<l1, l2>> : l1 \in PairLines, l2 \in PairLines}

\* The arguments of AddCustomPattern: an expression that does not compile, a
\* new category, and a second pattern of a seeded category.
CustomPatterns ==
    { [regex |-> "KASAN: (use", score |-> Pct(90), description |-> "KASAN detail"],
      [regex |-> "soft lockup.*", score |-> Pct(80), description |-> "Soft lockup"],
      [regex |-> "WARNING: sus.*", score |-> Pct(50), description |-> "Kernel warning"] }

CallCalculateScore(logs) ==
    /\ UNCHANGED <<threadVars, observed, handed, fuzzerVars>>
    /\ ret' = [op |-> "CalculateScore", logs |-> logs,
               score |-> CalculateScore(patterns, logs)]
    /\ UNCHANGED <<config, trackerVars, selectorVars, scoreMetrics, now,
                   historyVars, calls>>

CallAddCustomPattern(regex, score, description) ==
    /\ UNCHANGED <<threadVars, observed, handed, fuzzerVars>>
    /\ calls < MaxCalls
    /\ \E r \in {AddCustomPattern(patterns, regex, score, description)} :
           /\ patterns' = r.patterns
           /\ ret' = [op |-> "AddCustomPattern", regex |-> regex, score |-> score,
                      description |-> description, err |-> r.err]
    /\ calls' = calls + 1
    /\ UNCHANGED <<config, scores, pcHitCounts, pathFrequency, execTimeStats,
                   selectorVars, scoreMetrics, now, historyVars>>

CalculateScoreStep == \E logs \in MatcherLogs : CallCalculateScore(logs)

AddCustomPatternStep ==
    \E c \in CustomPatterns : CallAddCustomPattern(c.regex, c.score, c.description)

\* The KernelLogMatcher driven through its own interface.
NextMatcher ==
    \/ CalculateScoreStep
    \/ AddCustomPatternStep

SpecMatcher == InitTop /\ [][NextMatcher]_vars

-----------------------------------------------------------------------------
(* Goroutines *)

\* A Lock that does not wait.
CanLock_Always(m) == TRUE

\* sync.RWMutex.  Lock waits until no goroutine holds the mutex, RLock until
\* no goroutine holds it for writing.
CanLock(m) == m.writer = <<>> /\ m.readers = {}
CanRLock(m) == m.writer = <<>>
Lock(m, w) == [m EXCEPT !.writer = <<w>>]
Unlock(m) == [m EXCEPT !.writer = <<>>]
RLock(m, w) == [m EXCEPT !.readers = @ \cup {w}]
RUnlock(m, w) == [m EXCEPT !.readers = @ \ {w}]

\* Goroutine w moves to a statement with new locals.
Goto(w, label, loc) ==
    /\ ctl' = [ctl EXCEPT ![w] = label]
    /\ local' = [local EXCEPT ![w] = loc]

\* Goroutine w returns to its caller outside the scoring.
Done(w, value) ==
    /\ ctl' = [ctl EXCEPT ![w] = "idle"]
    /\ local' = [local EXCEPT ![w] = NoLocals]
    /\ ret' = value

otherThanTimeStats ==
    <<config, scores, pcHitCounts, pathFrequency, patterns, selectorVars,
      scoreMetrics, now, historyVars, observed, handed, fuzzerVars>>

\* TimeStats.AddSample: ts.mu.Lock()
AddSample_Lock(w) ==
    /\ ctl[w] = "AddSample"
    /\ CanLock(locks.ts)
    /\ locks' = [locks EXCEPT !.ts = Lock(@, w)]
    /\ Goto(w, "AddSample_body", local[w])
    /\ UNCHANGED <<execTimeStats, otherThanTimeStats, ret, calls>>

\* the body of AddSample and the deferred ts.mu.Unlock()
AddSample_Body(w) ==
    /\ ctl[w] = "AddSample_body"
    /\ execTimeStats' = AddSample(execTimeStats, local[w].execTime)
    /\ locks' = [locks EXCEPT !.ts = Unlock(@)]
    /\ IF local[w].tsBack = "idle"
       THEN Done(w, [op |-> "AddSample", execTime |-> local[w].execTime])
       ELSE Goto(w, local[w].tsBack, local[w]) /\ UNCHANGED ret
    /\ UNCHANGED <<otherThanTimeStats, calls>>

\* The part of CalculateAnomalyScore that follows the recomputation: the
\* score from the cached mean and deviation.
ScoreFromCache(ts, execTime) ==
    IF ts.stdDev = 0 THEN 0
    ELSE Min(((Abs(execTime * SCALE - ts.mean) * SCALE) \div ts.stdDev) \div 2, SCALE)

\* CalculateAnomalyScore and GetStats: ts.mu.RLock()
Stats_RLock(w) ==
    /\ ctl[w] \in {"CalculateAnomalyScore", "GetStats"}
    /\ CanRLock(locks.ts)
    /\ locks' = [locks EXCEPT !.ts = RLock(@, w)]
    /\ Goto(w, ctl[w] \o "_check", local[w])
    /\ UNCHANGED <<execTimeStats, otherThanTimeStats, ret, calls>>

\* The return of CalculateAnomalyScore, with the deferred ts.mu.RUnlock().
CalculateAnomalyScore_Return(w, score) ==
    /\ locks' = [locks EXCEPT !.ts = RUnlock(@, w)]
    /\ IF local[w].tsBack = "idle"
       THEN Done(w, [op |-> "CalculateAnomalyScore", execTime |-> local[w].execTime,
                     score |-> score])
       ELSE /\ Goto(w, local[w].tsBack, [local[w] EXCEPT !.timeAnomaly = score])
            /\ UNCHANGED ret

\* CalculateAnomalyScore going for the write lock with its read lock held.
CalculateAnomalyScore_Check_KeepsRLock(w) ==
    /\ ctl[w] = "CalculateAnomalyScore_check"
    /\ IF execTimeStats.count < MinSamples
       THEN CalculateAnomalyScore_Return(w, 0)
       ELSE IF execTimeStats.needRecalc
       THEN /\ Goto(w, "CalculateAnomalyScore_lock", local[w])
            /\ UNCHANGED <<locks, ret>>
       ELSE /\ Goto(w, "CalculateAnomalyScore_read", local[w])
            /\ UNCHANGED <<locks, ret>>
    /\ UNCHANGED <<execTimeStats, otherThanTimeStats, calls>>

\* if ts.count < 10 { return 0.0 }; if ts.needRecalc { ts.mu.RUnlock() ...
CalculateAnomalyScore_Check(w) ==
    /\ ctl[w] = "CalculateAnomalyScore_check"
    /\ IF execTimeStats.count < MinSamples
       THEN CalculateAnomalyScore_Return(w, 0)
       ELSE IF execTimeStats.needRecalc
       THEN /\ locks' = [locks EXCEPT !.ts = RUnlock(@, w)]
            /\ Goto(w, "CalculateAnomalyScore_lock", local[w])
            /\ UNCHANGED ret
       ELSE /\ Goto(w, "CalculateAnomalyScore_read", local[w])
            /\ UNCHANGED <<locks, ret>>
    /\ UNCHANGED <<execTimeStats, otherThanTimeStats, calls>>

\* GetStats: if ts.needRecalc { ts.mu.RUnlock() ...
GetStats_Check(w) ==
    /\ ctl[w] = "GetStats_check"
    /\ IF execTimeStats.needRecalc
       THEN /\ locks' = [locks EXCEPT !.ts = RUnlock(@, w)]
            /\ Goto(w, "GetStats_lock", local[w])
       ELSE /\ Goto(w, "GetStats_read", local[w])
            /\ UNCHANGED locks
    /\ UNCHANGED <<execTimeStats, otherThanTimeStats, ret, calls>>

\* ... ts.mu.Lock()
Stats_Lock(w) ==
    /\ ctl[w] \in {"CalculateAnomalyScore_lock", "GetStats_lock"}
    /\ CanLock(locks.ts)
    /\ locks' = [locks EXCEPT !.ts = Lock(@, w)]
    /\ Goto(w, IF ctl[w] = "GetStats_lock" THEN "GetStats_recalc"
                ELSE "CalculateAnomalyScore_recalc", local[w])
    /\ UNCHANGED <<execTimeStats, otherThanTimeStats, ret, calls>>

\* ... ts.recalculateStats(); ts.mu.Unlock()
Stats_Recalculate(w) ==
    /\ ctl[w] \in {"CalculateAnomalyScore_recalc", "GetStats_recalc"}
    /\ execTimeStats' = recalculateStats(execTimeStats)
    /\ locks' = [locks EXCEPT !.ts = Unlock(@)]
    /\ Goto(w, IF ctl[w] = "GetStats_recalc" THEN "GetStats_rlock"
                ELSE "CalculateAnomalyScore_rlock", local[w])
    /\ UNCHANGED <<otherThanTimeStats, ret, calls>>

\* ... ts.mu.RLock() }
Stats_RLockAgain(w) ==
    /\ ctl[w] \in {"CalculateAnomalyScore_rlock", "GetStats_rlock"}
    /\ CanRLock(locks.ts)
    /\ locks' = [locks EXCEPT !.ts = RLock(@, w)]
    /\ Goto(w, IF ctl[w] = "GetStats_rlock" THEN "GetStats_read"
                ELSE "CalculateAnomalyScore_read", local[w])
    /\ UNCHANGED <<execTimeStats, otherThanTimeStats, ret, calls>>

\* The rest of CalculateAnomalyScore, which reads ts.stdDev and ts.mean.
CalculateAnomalyScore_Read(w) ==
    /\ ctl[w] = "CalculateAnomalyScore_read"
    /\ CalculateAnomalyScore_Return(w, ScoreFromCache(execTimeStats, local[w].execTime))
    /\ UNCHANGED <<execTimeStats, otherThanTimeStats, calls>>

\* return ts.mean, ts.stdDev, ts.count, with the deferred ts.mu.RUnlock()
GetStats_Read(w) ==
    /\ ctl[w] = "GetStats_read"
    /\ locks' = [locks EXCEPT !.ts = RUnlock(@, w)]
    /\ Done(w, [op |-> "GetStats", mean |-> execTimeStats.mean,
                 stdDev |-> execTimeStats.stdDev, count |-> execTimeStats.count])
    /\ UNCHANGED <<execTimeStats, otherThanTimeStats, calls>>

\* A goroutine outside the scoring calls into TimeStats.
Go_AddSample(w, execTime, maxCalls) ==
    /\ ctl[w] = "idle"
    /\ calls < maxCalls
    /\ calls' = calls + 1
    /\ Goto(w, "AddSample", [NoLocals EXCEPT !.op = "AddSample", !.execTime = execTime])
    /\ UNCHANGED <<execTimeStats, otherThanTimeStats, locks, ret>>

Go_CalculateAnomalyScore(w, execTime) ==
    /\ ctl[w] = "idle"
    /\ Goto(w, "CalculateAnomalyScore",
            [NoLocals EXCEPT !.op = "CalculateAnomalyScore", !.execTime = execTime])
    /\ UNCHANGED <<execTimeStats, otherThanTimeStats, locks, ret, calls>>

Go_GetStats(w) ==
    /\ ctl[w] = "idle"
    /\ Goto(w, "GetStats", [NoLocals EXCEPT !.op = "GetStats"])
    /\ UNCHANGED <<execTimeStats, otherThanTimeStats, locks, ret, calls>>

\* The statements of TimeStats a goroutine can be at.
TimeStatsSteps(w) ==
    \/ AddSample_Lock(w)
    \/ AddSample_Body(w)
    \/ Stats_RLock(w)
    \/ CalculateAnomalyScore_Check(w)
    \/ GetStats_Check(w)
    \/ Stats_Lock(w)
    \/ Stats_Recalculate(w)
    \/ Stats_RLockAgain(w)
    \/ CalculateAnomalyScore_Read(w)
    \/ GetStats_Read(w)

InitTimeRace == ConstructFilled(MinSamples - 1)

TimeRaceCalls ==
    \E w \in Workers :
        \/ \E execTime \in 1..MaxExecTime :
               Go_AddSample(w, execTime, MinSamples - 1 + MaxCalls)
        \/ Go_CalculateAnomalyScore(w, AnomalyTime)
        \/ Go_GetStats(w)

TimeRaceSteps == \E w \in Workers : TimeStatsSteps(w)

\* Goroutines using one TimeStats concurrently.
NextTimeRace ==
    \/ TimeRaceCalls
    \/ TimeRaceSteps

SpecTimeRace == InitTimeRace /\ [][NextTimeRace]_vars

otherThanSelector ==
    <<config, trackerVars, scoreMetrics, now, historyVars, observed, handed, fuzzerVars>>

\* WeightedSelector.UpdateWeight: ws.mu.Lock()
UpdateWeight_Lock(w) ==
    /\ ctl[w] = "UpdateWeight"
    /\ CanLock(locks.ws)
    /\ locks' = [locks EXCEPT !.ws = Lock(@, w)]
    /\ Goto(w, "UpdateWeight_store", local[w])
    /\ UNCHANGED <<selectorVars, otherThanSelector, ret, calls>>

\* ws.weights[progHash] = weight
UpdateWeight_Store(w) ==
    /\ ctl[w] = "UpdateWeight_store"
    /\ weights' = [h \in DOMAIN weights \cup {local[w].prog} |->
                      IF h = local[w].prog THEN local[w].weight ELSE weights[h]]
    /\ Goto(w, "UpdateWeight_mark", local[w])
    /\ UNCHANGED <<cumulativeWeights, progHashes, needRebuild, otherThanSelector,
                   locks, ret, calls>>

\* ws.needRebuild = true, and the deferred ws.mu.Unlock()
UpdateWeight_Mark(w) ==
    /\ ctl[w] = "UpdateWeight_mark"
    /\ needRebuild' = TRUE
    /\ locks' = [locks EXCEPT !.ws = Unlock(@)]
    /\ Done(w, [op |-> local[w].op, prog |-> local[w].prog, weight |-> local[w].weight])
    /\ UNCHANGED <<weights, cumulativeWeights, progHashes, otherThanSelector, calls>>

\* WeightedSelector.SelectWeighted: ws.mu.Lock()
SelectWeighted_Lock(w) ==
    /\ ctl[w] = "SelectWeighted"
    /\ CanLock(locks.ws)
    /\ locks' = [locks EXCEPT !.ws = Lock(@, w)]
    /\ Goto(w, "SelectWeighted_check", local[w])
    /\ UNCHANGED <<selectorVars, otherThanSelector, ret, calls>>

\* if ws.needRebuild { ws.rebuildWeightTable() }: the two truncations to [:0];
\* range will visit the map in some order.
SelectWeighted_Check(w) ==
    /\ ctl[w] = "SelectWeighted_check"
    /\ IF needRebuild
       THEN /\ cumulativeWeights' = <<>>
            /\ progHashes' = <<>>
            /\ \E order \in Orders(DOMAIN weights) :
                   Goto(w, "rebuildWeightTable_loop",
                        [local[w] EXCEPT !.order = order, !.n = 1, !.cumulative = 0])
       ELSE /\ Goto(w, "SelectWeighted_search", local[w])
            /\ UNCHANGED <<cumulativeWeights, progHashes>>
    /\ UNCHANGED <<weights, needRebuild, otherThanSelector, locks, ret, calls>>

\* One iteration of the loop of rebuildWeightTable up to the append to
\* ws.cumulativeWeights; after the loop, ws.needRebuild = false.
rebuildWeightTable_Loop(w) ==
    /\ ctl[w] = "rebuildWeightTable_loop"
    /\ LET n == local[w].n
           order == local[w].order
       IN  IF n > Len(order)
           THEN /\ needRebuild' = FALSE
                /\ Goto(w, "SelectWeighted_search", local[w])
                /\ UNCHANGED cumulativeWeights
           ELSE IF weights[order[n]] > 0
           THEN /\ cumulativeWeights' =
                       Append(cumulativeWeights, local[w].cumulative + weights[order[n]])
                /\ Goto(w, "rebuildWeightTable_hash",
                        [local[w] EXCEPT !.cumulative = @ + weights[order[n]]])
                /\ UNCHANGED needRebuild
           ELSE /\ Goto(w, "rebuildWeightTable_loop", [local[w] EXCEPT !.n = n + 1])
                /\ UNCHANGED <<cumulativeWeights, needRebuild>>
    /\ UNCHANGED <<weights, progHashes, otherThanSelector, locks, ret, calls>>

\* ws.progHashes = append(ws.progHashes, hash)
rebuildWeightTable_Hash(w) ==
    /\ ctl[w] = "rebuildWeightTable_hash"
    /\ progHashes' = Append(progHashes, local[w].order[local[w].n])
    /\ Goto(w, "rebuildWeightTable_loop", [local[w] EXCEPT !.n = @ + 1])
    /\ UNCHANGED <<weights, cumulativeWeights, needRebuild, otherThanSelector,
                   locks, ret, calls>>

\* The part of SelectWeighted that follows the rebuild: the search of the
\* index as it stands.
SearchIndex(cw, ph, rnd) ==
    IF Len(cw) = 0 THEN ""
    ELSE ph[BinarySearch(cw, (rnd * cw[Len(cw)]) \div SCALE, 1, Len(cw))]

\* The search, and the deferred ws.mu.Unlock()
SelectWeighted_Search(w) ==
    /\ ctl[w] = "SelectWeighted_search"
    /\ locks' = [locks EXCEPT !.ws = Unlock(@)]
    /\ Done(w, [op |-> "SelectWeighted", rnd |-> local[w].rnd,
                 hash |-> SearchIndex(cumulativeWeights, progHashes, local[w].rnd)])
    /\ UNCHANGED <<selectorVars, otherThanSelector, calls>>

Go_UpdateWeight(w, progHash, weight, maxCalls) ==
    /\ ctl[w] = "idle"
    /\ calls < maxCalls
    /\ calls' = calls + 1
    /\ Goto(w, "UpdateWeight",
            [NoLocals EXCEPT !.op = "UpdateWeight", !.prog = progHash, !.weight = weight])
    /\ UNCHANGED <<selectorVars, otherThanSelector, locks, ret>>

Go_SelectWeighted(w, rnd) ==
    /\ ctl[w] = "idle"
    /\ Goto(w, "SelectWeighted", [NoLocals EXCEPT !.op = "SelectWeighted", !.rnd = rnd])
    /\ UNCHANGED <<selectorVars, otherThanSelector, locks, ret, calls>>

\* The statements of WeightedSelector a goroutine can be at.
SelectorSteps(w) ==
    \/ UpdateWeight_Lock(w)
    \/ UpdateWeight_Store(w)
    \/ UpdateWeight_Mark(w)
    \/ SelectWeighted_Lock(w)
    \/ SelectWeighted_Check(w)
    \/ rebuildWeightTable_Loop(w)
    \/ rebuildWeightTable_Hash(w)
    \/ SelectWeighted_Search(w)

SelectorRaceCalls ==
    \E w \in Workers :
        \/ \E p \in Progs, weight \in WeightInputs : Go_UpdateWeight(w, p, weight, MaxCalls)
        \/ \E rnd \in RndInputs : Go_SelectWeighted(w, rnd)

SelectorRaceSteps == \E w \in Workers : SelectorSteps(w)

\* Goroutines using one WeightedSelector concurrently.
NextSelectorRace ==
    \/ SelectorRaceCalls
    \/ SelectorRaceSteps

SpecSelectorRace == InitTop /\ [][NextSelectorRace]_vars

otherThanMatcher ==
    <<config, scores, pcHitCounts, pathFrequency, execTimeStats, selectorVars,
      scoreMetrics, now, historyVars, observed, handed, fuzzerVars>>

\* KernelLogMatcher.CalculateScore: klm.mu.RLock()
CalculateScore_RLock(w) ==
    /\ ctl[w] = "CalculateScore"
    /\ CanRLock(locks.klm)
    /\ locks' = [locks EXCEPT !.klm = RLock(@, w)]
    /\ Goto(w, "CalculateScore_body", local[w])
    /\ UNCHANGED <<patterns, otherThanMatcher, ret, calls>>

\* the body of CalculateScore and the deferred klm.mu.RUnlock()
CalculateScore_Body(w) ==
    /\ ctl[w] = "CalculateScore_body"
    /\ locks' = [locks EXCEPT !.klm = RUnlock(@, w)]
    /\ \E score \in {CalculateScore(patterns, local[w].logs)} :
          IF local[w].klmBack = "idle"
          THEN Done(w, [op |-> "CalculateScore", logs |-> local[w].logs, score |-> score])
          ELSE /\ Goto(w, local[w].klmBack, [local[w] EXCEPT !.kernelLog = score])
               /\ UNCHANGED ret
    /\ UNCHANGED <<patterns, otherThanMatcher, calls>>

otherThanTracker == <<config, selectorVars, scoreMetrics, observed, handed, fuzzerVars>>

\* ScoreTracker.UpdateScore: if !st.config.Enabled { return &ProgScore{Total: 0.5} }
UpdateScore_Enabled(w) ==
    /\ ctl[w] = "UpdateScore"
    /\ IF ~config.Enabled
       THEN Done(w, [op |-> "UpdateScore", prog |-> local[w].prog,
                     result |-> local[w].result, enabled |-> FALSE,
                     progScore |-> NeutralScore])
       ELSE /\ Goto(w, "UpdateScore_lock",
                    [local[w] EXCEPT !.enabled = TRUE, !.cfgs = <<config>>])
            /\ UNCHANGED ret
    /\ UNCHANGED <<trackerVars, otherThanTracker, now, historyVars, locks, calls>>

\* st.mu.Lock()
UpdateScore_Lock(w) ==
    /\ ctl[w] = "UpdateScore_lock"
    /\ CanLock(locks.st)
    /\ locks' = [locks EXCEPT !.st = Lock(@, w)]
    /\ Goto(w, "calculateCoverageScore", local[w])
    /\ UNCHANGED <<trackerVars, otherThanTracker, now, historyVars, ret, calls>>

\* calculateCoverageScore up to its loop
calculateCoverageScore_Enter(w) ==
    /\ ctl[w] = "calculateCoverageScore"
    /\ IF local[w].result.Signal = {}
       THEN Goto(w, "calculateRarityScore", [local[w] EXCEPT !.coverage = 0])
       ELSE Goto(w, "calculateCoverageScore_load",
                 [local[w] EXCEPT !.raw = SortedSeq(local[w].result.Signal),
                                  !.n = 1, !.newCoverage = 0])
    /\ UNCHANGED <<trackerVars, otherThanTracker, now, historyVars, locks, ret, calls>>

\* One iteration of the loop up to the load of st.pcHitCounts[pc]++; after
\* the loop, the score from the ratio of newly covered elements.
calculateCoverageScore_Load(w) ==
    /\ ctl[w] = "calculateCoverageScore_load"
    /\ LET n == local[w].n
           raw == local[w].raw
       IN  IF n > Len(raw)
           THEN LET newCoverageRatio == (local[w].newCoverage * SCALE) \div Len(raw)
                    score == (Log(SCALE + (newCoverageRatio * E) \div SCALE) * SCALE)
                                \div Log(SCALE + E)
                IN  Goto(w, "calculateRarityScore",
                         [local[w] EXCEPT !.coverage = Min(score, SCALE)])
           ELSE Goto(w, "calculateCoverageScore_store",
                     [local[w] EXCEPT !.hits = pcHitCounts[raw[n]],
                                      !.newCoverage =
                                          IF pcHitCounts[raw[n]] = 0 THEN @ + 1 ELSE @])
    /\ UNCHANGED <<trackerVars, otherThanTracker, now, historyVars, locks, ret, calls>>

\* The store of st.pcHitCounts[pc]++
calculateCoverageScore_Store(w) ==
    /\ ctl[w] = "calculateCoverageScore_store"
    /\ pcHitCounts' = [pcHitCounts EXCEPT ![local[w].raw[local[w].n]] = local[w].hits + 1]
    /\ Goto(w, "calculateCoverageScore_load", [local[w] EXCEPT !.n = @ + 1])
    /\ UNCHANGED <<scores, pathFrequency, execTimeStats, patterns, otherThanTracker,
                   now, historyVars, locks, ret, calls>>

\* rarityScore := st.calculateRarityScore(execResult)
UpdateScore_Rarity(w) ==
    /\ ctl[w] = "calculateRarityScore"
    /\ Goto(w, "calculateKernelLogScore",
            [local[w] EXCEPT !.rarity =
                calculateRarityScore(pathFrequency, local[w].result).score])
    /\ UNCHANGED <<trackerVars, otherThanTracker, now, historyVars, locks, ret, calls>>

\* calculateKernelLogScore: 0 without logs, else st.logMatcher.CalculateScore
UpdateScore_KernelLog(w) ==
    /\ ctl[w] = "calculateKernelLogScore"
    /\ IF Len(local[w].result.KernelLogs) = 0
       THEN Goto(w, "calculateTimeAnomalyScore", [local[w] EXCEPT !.kernelLog = 0])
       ELSE Goto(w, "CalculateScore",
                 [local[w] EXCEPT !.logs = local[w].result.KernelLogs,
                                  !.klmBack = "calculateTimeAnomalyScore"])
    /\ UNCHANGED <<trackerVars, otherThanTracker, now, historyVars, locks, ret, calls>>

\* calculateTimeAnomalyScore: 0 without an elapsed time, else
\* st.execTimeStats.CalculateAnomalyScore
UpdateScore_TimeAnomaly(w) ==
    /\ ctl[w] = "calculateTimeAnomalyScore"
    /\ IF local[w].result.ExecTime = 0
       THEN Goto(w, "UpdateScore_weights", [local[w] EXCEPT !.timeAnomaly = 0])
       ELSE Goto(w, "CalculateAnomalyScore",
                 [local[w] EXCEPT !.execTime = local[w].result.ExecTime,
                                  !.tsBack = "UpdateScore_weights"])
    /\ UNCHANGED <<trackerVars, otherThanTracker, now, historyVars, locks, ret, calls>>

\* One of the four loads st.config.CoverageWeight, st.config.RarityWeight,
\* st.config.KernelLogWeight, st.config.TimeAnomalyWeight, in this order.
UpdateScore_Weights(w) ==
    /\ ctl[w] = "UpdateScore_weights"
    /\ Goto(w, IF Len(local[w].cfgs) = 4 THEN "UpdateScore_store" ELSE "UpdateScore_weights",
            [local[w] EXCEPT !.cfgs = Append(@, config)])
    /\ UNCHANGED <<trackerVars, otherThanTracker, now, historyVars, locks, ret, calls>>

\* The total from the weights as they were loaded.
LoadedTotal(loc) ==
    (loc.cfgs[2].CoverageWeight * loc.coverage + loc.cfgs[3].RarityWeight * loc.rarity
        + loc.cfgs[4].KernelLogWeight * loc.kernelLog
        + loc.cfgs[5].TimeAnomalyWeight * loc.timeAnomaly) \div SCALE

\* score := &ProgScore{...}; st.scores[progHash] = score
UpdateScore_Store(w) ==
    /\ ctl[w] = "UpdateScore_store"
    /\ \E score \in {ProgScore(LoadedTotal(local[w]), local[w].coverage, local[w].rarity,
                                local[w].kernelLog, local[w].timeAnomaly, now)} :
          /\ scores' = [h \in DOMAIN scores \cup {local[w].prog} |->
                           IF h = local[w].prog THEN score ELSE scores[h]]
          /\ RecordScored(TRUE, local[w].prog, local[w].result, score)
          /\ Goto(w, "updateStatistics", [local[w] EXCEPT !.score = <<score>>])
    /\ now' = now + 1
    /\ UNCHANGED <<pcHitCounts, pathFrequency, execTimeStats, patterns,
                   otherThanTracker, locks, ret, calls>>

\* updateStatistics: the load of st.pathFrequency[signalKey]++
updateStatistics_Load(w) ==
    /\ ctl[w] = "updateStatistics"
    /\ IF local[w].result.Signal # {}
       THEN Goto(w, "updateStatistics_store",
                 [local[w] EXCEPT !.hits = pathFrequency[SignalString(local[w].result.Signal)]])
       ELSE Goto(w, "updateStatistics_time", local[w])
    /\ UNCHANGED <<trackerVars, otherThanTracker, now, historyVars, locks, ret, calls>>

\* the store of st.pathFrequency[signalKey]++
updateStatistics_Store(w) ==
    /\ ctl[w] = "updateStatistics_store"
    /\ pathFrequency' =
          [pathFrequency EXCEPT ![SignalString(local[w].result.Signal)] = local[w].hits + 1]
    /\ Goto(w, "updateStatistics_time", local[w])
    /\ UNCHANGED <<scores, pcHitCounts, execTimeStats, patterns, otherThanTracker,
                   now, historyVars, locks, ret, calls>>

\* if result.ExecTime > 0 { st.execTimeStats.AddSample(result.ExecTime) }
updateStatistics_Time(w) ==
    /\ ctl[w] = "updateStatistics_time"
    /\ IF local[w].result.ExecTime > 0
       THEN Goto(w, "AddSample",
                 [local[w] EXCEPT !.execTime = local[w].result.ExecTime,
                                  !.tsBack = "UpdateScore_return"])
       ELSE Goto(w, "UpdateScore_return", local[w])
    /\ UNCHANGED <<trackerVars, otherThanTracker, now, historyVars, locks, ret, calls>>

\* return score, with the deferred st.mu.Unlock()
UpdateScore_Return(w) ==
    /\ ctl[w] = "UpdateScore_return"
    /\ locks' = [locks EXCEPT !.st = Unlock(@)]
    /\ Done(w, [op |-> "UpdateScore", prog |-> local[w].prog,
                 result |-> local[w].result, enabled |-> TRUE,
                 progScore |-> local[w].score[1]])
    /\ UNCHANGED <<trackerVars, otherThanTracker, now, historyVars, calls>>

Go_UpdateScore(w, progHash, result, maxCalls) ==
    /\ ctl[w] = "idle"
    /\ calls < maxCalls
    /\ calls' = calls + 1
    /\ Goto(w, "UpdateScore",
            [NoLocals EXCEPT !.op = "UpdateScore", !.prog = progHash, !.result = result])
    /\ UNCHANGED <<trackerVars, otherThanTracker, now, historyVars, locks, ret>>

\* The statements a goroutine can be at inside UpdateScore, those of the
\* calls it makes into TimeStats and KernelLogMatcher included.
UpdateScoreSteps(w) ==
    \/ UpdateScore_Enabled(w)
    \/ UpdateScore_Lock(w)
    \/ calculateCoverageScore_Enter(w)
    \/ calculateCoverageScore_Load(w)
    \/ calculateCoverageScore_Store(w)
    \/ UpdateScore_Rarity(w)
    \/ UpdateScore_KernelLog(w)
    \/ CalculateScore_RLock(w)
    \/ CalculateScore_Body(w)
    \/ UpdateScore_TimeAnomaly(w)
    \/ Stats_RLock(w)
    \/ CalculateAnomalyScore_Check(w)
    \/ Stats_Lock(w)
    \/ Stats_Recalculate(w)
    \/ Stats_RLockAgain(w)
    \/ CalculateAnomalyScore_Read(w)
    \/ UpdateScore_Weights(w)
    \/ UpdateScore_Store(w)
    \/ updateStatistics_Load(w)
    \/ updateStatistics_Store(w)
    \/ updateStatistics_Time(w)
    \/ AddSample_Lock(w)
    \/ AddSample_Body(w)
    \/ UpdateScore_Return(w)

\* The identity each goroutine scores: the goroutines score disjoint ones.
ProgOf(w) == IF w = "w1" THEN "p1" ELSE "p2"

InitScoreRace == ConstructFilled(MinSamples - 1)

ScoreRaceCalls ==
    \E w \in Workers, result \in ExecutionResults :
        Go_UpdateScore(w, ProgOf(w), result, MinSamples - 1 + MaxCalls)

ScoreRaceSteps == \E w \in Workers : UpdateScoreSteps(w)

\* Goroutines scoring disjoint identities on one enabled tracker.
NextScoreRace ==
    \/ ScoreRaceCalls
    \/ ScoreRaceSteps

SpecScoreRace == InitScoreRace /\ [][NextScoreRace]_vars

\* The same while the configuration is replaced.
NextConfigRace ==
    \/ ScoreRaceCalls
    \/ ScoreRaceSteps
    \/ UpdateScoreConfigStep

SpecConfigRace == InitScoreRace /\ [][NextConfigRace]_vars

otherThanMetrics ==
    <<config, trackerVars, selectorVars, now, historyVars, handed, fuzzerVars, locks, calls>>

\* Fuzzer.processResult: progScore := fuzzer.calculateProgScore(req, res).
\* UpdateScore runs under st.mu from its first statement to its return.
processResult_Score(w) ==
    /\ ctl[w] = "processResult"
    /\ CanLock(locks.st)
    /\ \E r \in {IF ~config.Enabled \/ local[w].prog = Nil
                  THEN [score |-> NeutralScore, st |-> Tracker]
                  ELSE UpdateScore(config, Tracker, now, local[w].prog, local[w].result)} :
          /\ SetTracker(r.st)
          /\ RecordScored(config.Enabled /\ local[w].prog # Nil, local[w].prog,
                          local[w].result, r.score)
          /\ Goto(w, "UpdateMetrics", [local[w] EXCEPT !.score = <<r.score>>])
    /\ now' = now + 1
    /\ UNCHANGED <<config, selectorVars, scoreMetrics, observed, handed, fuzzerVars, locks, ret, calls>>

\* ScoreMetrics.UpdateMetrics: the load of sm.TotalRequests++
UpdateMetrics_Load(w) ==
    /\ ctl[w] = "UpdateMetrics"
    /\ Goto(w, "UpdateMetrics_inc", [local[w] EXCEPT !.n = scoreMetrics.TotalRequests])
    /\ UNCHANGED <<scoreMetrics, observed, otherThanMetrics, ret>>

\* the store of sm.TotalRequests++
UpdateMetrics_Inc(w) ==
    /\ ctl[w] = "UpdateMetrics_inc"
    /\ scoreMetrics' = [scoreMetrics EXCEPT !.TotalRequests = local[w].n + 1]
    /\ Goto(w, "UpdateMetrics_average", [local[w] EXCEPT !.n = @ + 1])
    /\ UNCHANGED <<observed, otherThanMetrics, ret>>

\* if sm.TotalRequests == 1 { ... } else { ... }
UpdateMetrics_Average(w) ==
    /\ ctl[w] = "UpdateMetrics_average"
    /\ LET score == local[w].score[1].Total
           first == scoreMetrics.TotalRequests = 1
       IN  scoreMetrics' =
             [scoreMetrics EXCEPT
                !.AverageScore = IF first THEN score
                                 ELSE RunningMean(@, scoreMetrics.TotalRequests, score),
                !.MaxScore = IF first THEN score ELSE Max(@, score),
                !.MinScore = IF first THEN score ELSE Min(@, score)]
    /\ Goto(w, "UpdateMetrics_time", local[w])
    /\ UNCHANGED <<observed, otherThanMetrics, ret>>

\* the load of sm.TotalScoreCalculationTime += calculationTime
UpdateMetrics_TimeLoad(w) ==
    /\ ctl[w] = "UpdateMetrics_time"
    /\ Goto(w, "UpdateMetrics_timestore",
            [local[w] EXCEPT !.hits = scoreMetrics.TotalScoreCalculationTime])
    /\ UNCHANGED <<scoreMetrics, observed, otherThanMetrics, ret>>

\* its store, and sm.LastUpdated = time.Now()
UpdateMetrics_TimeStore(w) ==
    /\ ctl[w] = "UpdateMetrics_timestore"
    /\ scoreMetrics' =
          [scoreMetrics EXCEPT
             !.TotalScoreCalculationTime = local[w].hits + local[w].latency,
             !.LastUpdated = now]
    /\ Goto(w, "UpdateDimensionScores", local[w])
    /\ UNCHANGED <<observed, otherThanMetrics, ret>>

\* fuzzer.scoreMetrics.UpdateDimensionScores(...)
UpdateDimensionScores_Body(w) ==
    /\ ctl[w] = "UpdateDimensionScores"
    /\ LET progScore == local[w].score[1]
       IN  /\ scoreMetrics' =
                 UpdateDimensionScores(scoreMetrics, progScore.Coverage, progScore.Rarity,
                                       progScore.KernelLog, progScore.TimeAnomaly)
           /\ observed' = Append(observed, [total |-> progScore.Total,
                                            latency |-> local[w].latency])
    /\ Goto(w, "processResult_weight", local[w])
    /\ UNCHANGED <<otherThanMetrics, ret>>

\* if req.Prog != nil { fuzzer.weightedSelector.UpdateWeight(progHash, progScore.Total) }
processResult_Weight(w) ==
    /\ ctl[w] = "processResult_weight"
    /\ IF local[w].prog # Nil
       THEN /\ Goto(w, "UpdateWeight", [local[w] EXCEPT !.weight = local[w].score[1].Total])
            /\ UNCHANGED ret
       ELSE Done(w, [op |-> "processResult", prog |-> Nil, weight |-> 0])
    /\ UNCHANGED <<scoreMetrics, observed, otherThanMetrics>>

Go_processResult(w, req, res, scoreCalculationTime) ==
    /\ ctl[w] = "idle"
    /\ calls < MaxCalls
    /\ calls' = calls + 1
    /\ Goto(w, "processResult",
            [NoLocals EXCEPT !.op = "processResult", !.prog = req.Prog,
                             !.result = BuildExecResult(res),
                             !.latency = scoreCalculationTime])
    /\ UNCHANGED <<config, trackerVars, selectorVars, scoreMetrics, now, historyVars,
                   observed, handed, fuzzerVars, locks, ret>>

\* The statements of the scoring part of processResult.
ProcessResultSteps(w) ==
    \/ processResult_Score(w)
    \/ UpdateMetrics_Load(w)
    \/ UpdateMetrics_Inc(w)
    \/ UpdateMetrics_Average(w)
    \/ UpdateMetrics_TimeLoad(w)
    \/ UpdateMetrics_TimeStore(w)
    \/ UpdateDimensionScores_Body(w)
    \/ processResult_Weight(w)
    \/ UpdateWeight_Lock(w)
    \/ UpdateWeight_Store(w)
    \/ UpdateWeight_Mark(w)

ResultRaceCalls ==
    \E w \in Workers, req \in Requests, res \in Results, lat \in 1..MaxLatency :
        Go_processResult(w, req, res, lat)

ResultRaceSteps == \E w \in Workers : ProcessResultSteps(w)

\* Execution results processed by concurrent OnDone callbacks.
NextResultRace ==
    \/ ResultRaceCalls
    \/ ResultRaceSteps

SpecResultRace == InitTop /\ [][NextResultRace]_vars

\* ScoreTracker.GetScore and GetTopScoredProgs: st.mu.RLock()
Tracker_RLock(w) ==
    /\ ctl[w] \in {"GetScore", "GetTopScoredProgs"}
    /\ CanRLock(locks.st)
    /\ locks' = [locks EXCEPT !.st = RLock(@, w)]
    /\ Goto(w, ctl[w] \o "_body", local[w])
    /\ UNCHANGED <<trackerVars, otherThanTracker, now, historyVars, ret, calls>>

\* the body of GetScore and the deferred st.mu.RUnlock()
GetScore_Body(w) ==
    /\ ctl[w] = "GetScore_body"
    /\ locks' = [locks EXCEPT !.st = RUnlock(@, w)]
    /\ Done(w, [op |-> "GetScore", prog |-> local[w].prog,
                 progScore |-> GetScore(Tracker, local[w].prog)])
    /\ UNCHANGED <<trackerVars, otherThanTracker, now, historyVars, calls>>

\* the body of GetTopScoredProgs and the deferred st.mu.RUnlock()
GetTopScoredProgs_Body(w) ==
    /\ ctl[w] = "GetTopScoredProgs_body"
    /\ locks' = [locks EXCEPT !.st = RUnlock(@, w)]
    /\ \E order \in Orders(DOMAIN scores) :
          Done(w, [op |-> "GetTopScoredProgs", limit |-> local[w].limit,
                   top |-> GetTopScoredProgs(Tracker, order, local[w].limit)])
    /\ UNCHANGED <<trackerVars, otherThanTracker, now, historyVars, calls>>

\* KernelLogMatcher.AddCustomPattern: regexp.Compile(regex), before any lock
AddCustomPattern_Compile(w) ==
    /\ ctl[w] = "AddCustomPattern"
    /\ IF CompileError(local[w].pattern[1].regex)
       THEN Done(w, [op |-> "AddCustomPattern", regex |-> local[w].pattern[1].regex,
                     err |-> TRUE])
       ELSE Goto(w, "AddCustomPattern_lock", local[w]) /\ UNCHANGED ret
    /\ UNCHANGED <<patterns, otherThanMatcher, locks, calls>>

\* klm.mu.Lock()
AddCustomPattern_Lock(w) ==
    /\ ctl[w] = "AddCustomPattern_lock"
    /\ CanLock(locks.klm)
    /\ locks' = [locks EXCEPT !.klm = Lock(@, w)]
    /\ Goto(w, "AddCustomPattern_append", local[w])
    /\ UNCHANGED <<patterns, otherThanMatcher, ret, calls>>

\* the append and the deferred klm.mu.Unlock()
AddCustomPattern_Append(w) ==
    /\ ctl[w] = "AddCustomPattern_append"
    /\ LET p == local[w].pattern[1]
       IN  /\ patterns' = AddCustomPattern(patterns, p.regex, p.score, p.description).patterns
           /\ Done(w, [op |-> "AddCustomPattern", regex |-> p.regex, err |-> FALSE])
    /\ locks' = [locks EXCEPT !.klm = Unlock(@)]
    /\ UNCHANGED <<otherThanMatcher, calls>>

\* Every statement of the scoring core a goroutine can be at.
CoreSteps(w) ==
    \/ UpdateScoreSteps(w)
    \/ Tracker_RLock(w)
    \/ GetScore_Body(w)
    \/ GetTopScoredProgs_Body(w)
    \/ GetStats_Check(w)
    \/ GetStats_Read(w)
    \/ AddCustomPattern_Compile(w)
    \/ AddCustomPattern_Lock(w)
    \/ AddCustomPattern_Append(w)
    \/ SelectorSteps(w)

LiveResult == ExecutionResult({1}, 1, <<"KASAN: x", "  ">>)

\* The statistics hold MinSamples samples, awaiting their recomputation.
InitCore == ConstructFilled(MinSamples)

\* A goroutine outside the scoring enters an operation with its arguments.
CoreCall(w, op, args) ==
    /\ ctl[w] = "idle"
    /\ calls < MinSamples + MaxCalls
    /\ calls' = calls + 1
    /\ Goto(w, op, args)
    /\ UNCHANGED <<config, trackerVars, selectorVars, scoreMetrics, now, historyVars,
                   observed, handed, fuzzerVars, locks, ret>>

\* The ten operations of the scoring core, called from any goroutine.
CoreCalls ==
    \E w \in Workers :
        \/ CoreCall(w, "UpdateScore",
                    [NoLocals EXCEPT !.op = "UpdateScore", !.prog = ProgOf(w),
                                     !.result = LiveResult])
        \/ CoreCall(w, "GetScore", [NoLocals EXCEPT !.op = "GetScore", !.prog = "p1"])
        \/ CoreCall(w, "GetTopScoredProgs",
                    [NoLocals EXCEPT !.op = "GetTopScoredProgs", !.limit = 1])
        \/ CoreCall(w, "AddSample", [NoLocals EXCEPT !.op = "AddSample", !.execTime = 1])
        \/ CoreCall(w, "CalculateAnomalyScore",
                    [NoLocals EXCEPT !.op = "CalculateAnomalyScore",
                                     !.execTime = AnomalyTime])
        \/ CoreCall(w, "GetStats", [NoLocals EXCEPT !.op = "GetStats"])
        \/ CoreCall(w, "CalculateScore",
                    [NoLocals EXCEPT !.op = "CalculateScore", !.logs = <<"KASAN: x">>])
        \/ \E p \in CustomPatterns :
               CoreCall(w, "AddCustomPattern",
                        [NoLocals EXCEPT !.op = "AddCustomPattern", !.pattern = <<p>>])
        \/ CoreCall(w, "UpdateWeight",
                    [NoLocals EXCEPT !.op = "UpdateWeight", !.prog = ProgOf(w),
                                     !.weight = SCALE \div 10])
        \/ CoreCall(w, "SelectWeighted",
                    [NoLocals EXCEPT !.op = "SelectWeighted", !.rnd = SCALE \div 2])

CoreRaceSteps == \E w \in Workers : CoreSteps(w)

NextCore ==
    \/ CoreCalls
    \/ CoreRaceSteps

\* The scheduler runs every goroutine that can run: a goroutine inside a call
\* that can take its next step takes it.
CoreFairness == \A w \in Workers : WF_vars(CoreSteps(w))

SpecCore == InitCore /\ [][NextCore]_vars /\ CoreFairness

-----------------------------------------------------------------------------
(* WeightedQueue operations *)

coreVars ==
    <<config, trackerVars, selectorVars, scoreMetrics, now, historyVars, threadVars,
      observed, handed>>

CallSubmitScored(score) ==
    /\ calls < MaxTopCalls
    /\ \E req \in {NewScoringRequest(calls + 1, score)} :
          /\ queue' = SubmitScored(queue, req)
          /\ ret' = [op |-> "SubmitScored", req |-> <<req>>, index |-> 0]
    /\ calls' = calls + 1
    /\ UNCHANGED <<coreVars, loopVars>>

CallNextWeighted(rnd) ==
    /\ \E r \in {NextWeighted(queue, rnd)} :
          /\ queue' = r.wq
          /\ ret' = [op |-> "NextWeighted", req |-> r.req, index |-> r.index]
    /\ UNCHANGED <<coreVars, calls, loopVars>>

CallClear ==
    /\ queue' = Clear(queue)
    /\ ret' = [op |-> "Clear", req |-> <<>>, index |-> 0]
    /\ UNCHANGED <<coreVars, calls, loopVars>>

SubmitScoredStep == \E score \in WeightInputs : CallSubmitScored(score)
NextWeightedStep == \E rnd \in RndInputs : CallNextWeighted(rnd)
ClearStep == CallClear

\* A WeightedQueue driven through its own interface.
NextQueue ==
    \/ SubmitScoredStep
    \/ NextWeightedStep
    \/ ClearStep

SpecQueue == InitTop /\ [][NextQueue]_vars

-----------------------------------------------------------------------------
(* The fuzzing loop: operations *)

scoringVars == <<config, trackerVars, selectorVars, scoreMetrics, now, historyVars>>

\* Corpus.Save at the end of triageJob.handleCall.
CallSave(p) ==
    /\ p \notin corpus
    /\ corpus' = corpus \cup {p}
    /\ ret' = [op |-> "Save", prog |-> p]
    /\ UNCHANGED <<scoringVars, calls, threadVars, observed, handed, queue, options,
                   candidateQueue, executing, statCandidates, maxSignal, jobs,
                   jobVars>>

\* Fuzzer.AddCandidates
CallAddCandidates(candidates) ==
    /\ Len(candidateQueue) + Len(executing) + Len(candidates) <= MaxProcs
    /\ statCandidates' = statCandidates + Len(candidates)
    /\ candidateQueue' = candidateQueue \o
          [i \in DOMAIN candidates |->
              prepare(Request(candidates[i].Prog, TRUE, "statExecCandidate"),
                      candidates[i].Flags \cup {"progCandidate"}, 0)]
    /\ ret' = [op |-> "AddCandidates", n |-> Len(candidates)]
    /\ UNCHANGED <<scoringVars, calls, threadVars, observed, handed, queue, options,
                   corpus, executing, maxSignal, jobs, jobVars>>

\* Fuzzer.Next called by an executor: the candidate queue is polled before
\* genFuzz.  A nil request is the panic of Next.
CallNext(order, d) ==
    /\ Len(executing) < MaxProcs
    /\ \E r \in {IF candidateQueue # <<>> THEN <<Head(candidateQueue)>>
                  ELSE genFuzz(config, options, Tracker, corpus, order, d)} :
          /\ executing' = executing \o r
          /\ ret' = [op |-> "Next", req |-> r,
                     source |-> IF candidateQueue # <<>> THEN "candidateQueue"
                                ELSE "genFuzz",
                     enabled |-> config.Enabled, weighted |-> d.weighted,
                     found |-> mutateProgRequestWeighted(Tracker, corpus, order,
                                                         d.k, d.newP) # <<>>]
    /\ candidateQueue' = IF candidateQueue # <<>> THEN Tail(candidateQueue) ELSE <<>>
    /\ UNCHANGED <<scoringVars, calls, threadVars, observed, handed, queue, options,
                   corpus, statCandidates, maxSignal, jobs, jobVars>>

\* The executor finished request i with result res: its OnDone callback runs
\* processResult.  risky is what req.Risky() returns.
CallExecute(i, res, risky, scoreCalculationTime, maxCalls) ==
    /\ calls < maxCalls
    /\ i \in DOMAIN executing
    /\ \E req \in {executing[i]} :
        \E r \in {processResult(config, Tracker, Selector, scoreMetrics, now, req, res,
                                scoreCalculationTime)} :
        \E f \in {finishResult(options, maxSignal, req, res, risky)} :
           /\ SetTracker(r.st)
           /\ SetSelector(r.ws)
           /\ scoreMetrics' = r.sm
           /\ maxSignal' = f.maxSignal
           /\ jobs' = jobs \cup f.job
           /\ candidateQueue' = candidateQueue \o f.enqueue
           /\ statCandidates' = statCandidates + f.candidates
           /\ executing' = Without(executing, i)
           /\ ret' = [op |-> "processResult", prog |-> req.Prog, req |-> req,
                      res |-> res, risky |-> risky,
                      result |-> BuildExecResult(res),
                      enabled |-> config.Enabled, score |-> r.score, done |-> f.done]
           /\ RecordScored(config.Enabled /\ req.Prog # Nil, req.Prog,
                           BuildExecResult(res), r.score)
    /\ now' = now + 1
    /\ calls' = calls + 1
    /\ UNCHANGED <<config, threadVars, observed, handed, queue, options, corpus, jobVars>>

\* Results of executions: a failed run and runs with signal in the extra
\* call.
LoopResults ==
    { WithStatus(Result(<<>>, <<>>), "Done"),
      WithStatus(Result(ProgInfo(1, CallInfo(<<1, 1>>)), <<>>), "Done"),
      WithStatus(Result(ProgInfo(0, CallInfo(<<2, 1>>)), <<"WARNING: x">>), "Done") }

LoopOptions == [Snapshot : BOOLEAN, Collide : BOOLEAN]

InitLoop ==
    \E cfg \in {DefaultScoreConfig, DisabledScoreConfig},
       opts \in {o \in LoopOptions : ~o.Snapshot} :
        ConstructWith(cfg, opts)

SaveStep == CallSave("p1")
NextStep == \E order \in Orders(DOMAIN scores), d \in Draws : CallNext(order, d)
ExecuteStep ==
    \E i \in 1..MaxProcs, res \in LoopResults, lat \in 1..MaxLatency :
        CallExecute(i, res, FALSE, lat, MaxCalls)

\* Executors polling the fuzzer and reporting results, while triage saves
\* programs to the corpus.
NextLoop ==
    \/ SaveStep
    \/ NextStep
    \/ ExecuteStep

SpecLoop == InitLoop /\ [][NextLoop]_vars

CandidateInputs == [Prog : {"p1"}, Flags : {{}, {"ProgFromCorpus"}}]

AddCandidatesStep ==
    \E candidates \in {<<c>> : c \in CandidateInputs}
                      \cup {<<c, c>> : c \in CandidateInputs} :
        CallAddCandidates(candidates)

CandidateResults ==
    { WithStatus(Result(<<>>, <<>>), "Done"),
      WithStatus(Result(ProgInfo(1, CallInfo(<<1, 1>>)), <<>>), "Done"),
      WithStatus(Result(ProgInfo(1, CallInfo(<<1>>)), <<>>), "Hanged") }

CandidateExecuteStep ==
    \E i \in 1..MaxProcs, res \in CandidateResults, risky \in BOOLEAN :
        CallExecute(i, res, risky, 1, MaxExecs)

CandidateNextStep ==
    /\ candidateQueue # <<>>
    /\ NextStep

InitCandidates ==
    \E opts \in {o \in LoopOptions : ~o.Collide} : ConstructWith(DisabledScoreConfig, opts)

\* Candidates loaded, executed and executed again.
NextCandidates ==
    \/ AddCandidatesStep
    \/ CandidateNextStep
    \/ CandidateExecuteStep

SpecCandidates == InitCandidates /\ [][NextCandidates]_vars

-----------------------------------------------------------------------------
(* smashJob: operations *)

smashUnchanged ==
    <<calls, threadVars, observed, handed, queue, options, corpus, candidateQueue,
      executing, statCandidates, triageJob>>

\* smashJob.run up to the base score: GetScore of the program when scoring
\* is enabled, 0.5 otherwise.
smashJob_Base(p) ==
    /\ smash.pc = "none"
    /\ smash.started < MaxJobs
    /\ smash' = [NoSmash EXCEPT
                   !.pc = "iters", !.p = p, !.started = smash.started + 1,
                   !.enabled = config.Enabled,
                   !.baseScore = IF config.Enabled THEN GetScore(Tracker, p).Total
                                 ELSE SCALE \div 2]
    /\ ret' = [op |-> "smashJob.run", prog |-> p]
    /\ UNCHANGED <<scoringVars, maxSignal, jobs, smashUnchanged>>

\* iters := 25; if fuzzer.Config.ScoreConfig.Enabled { iters = int(15 + baseScore*35) }
smashJob_Iters ==
    /\ smash.pc = "iters"
    /\ smash' = [smash EXCEPT !.pc = "loop",
                               !.iters = smashIters(config.Enabled, smash.baseScore)]
    /\ ret' = [op |-> "smashJob.iters", prog |-> smash.p]
    /\ UNCHANGED <<scoringVars, maxSignal, jobs, smashUnchanged>>

\* The history of n scorings of one result.
RecordScorings(n, progHash, result, score) ==
    /\ scoredWith' = [pc \in PCs |->
                         IF pc \in result.Signal THEN scoredWith[pc] + n
                         ELSE scoredWith[pc]]
    /\ scoredSig' = [k \in Signatures |->
                         IF result.Signal # {} /\ k = SignalString(result.Signal)
                         THEN scoredSig[k] + n ELSE scoredSig[k]]
    /\ lastScored' = IF n = 0 THEN lastScored
                     ELSE [h \in DOMAIN lastScored \cup {progHash} |->
                             IF h = progHash THEN score ELSE lastScored[h]]

\* One iteration of the loop of smashJob.run: the mutant newP is executed
\* with result res, processResult runs as its OnDone callback, and the job
\* evaluates the result.  stop is what result.Stop() returns.
smashJob_Iterate(newP, res, stop, scoreCalculationTime) ==
    /\ smash.pc = "loop"
    /\ smash.i < smash.iters
    /\ \E strategy \in {smashStrategy(config.Enabled, smash.baseScore)} :
       \E req \in {prepare(Request(newP, TRUE, "statExecSmash"), {}, 0)} :
       \E r \in {processResult(config, Tracker, Selector, scoreMetrics, now, req, res,
                               scoreCalculationTime)} :
       \E f \in {finishResult(options, maxSignal, req, res, FALSE)} :
       \E m \in {IF stop
                  THEN [score |-> r.score, st |-> r.st]
                  ELSE [score |-> calculateProgScore(config, r.st, now + 1, req, res).score,
                        st |-> calculateProgScore(config, r.st, now + 1, req, res).st]} :
       \E success \in {~stop /\ config.Enabled /\ m.score.Total > smash.baseScore} :
          /\ SetTracker(m.st)
          /\ SetSelector(IF success THEN UpdateWeight(r.ws, newP, m.score.Total) ELSE r.ws)
          /\ scoreMetrics' = r.sm
          /\ maxSignal' = f.maxSignal
          /\ jobs' = jobs \cup f.job
          /\ smash' = IF stop
                      THEN [smash EXCEPT !.pc = "none",
                                         !.strategies = @ \cup {strategy}]
                      ELSE [smash EXCEPT
                              !.i = @ + 1,
                              !.totalMutations = @ + 1,
                              !.successfulMutations = IF success THEN @ + 1 ELSE @,
                              !.strategies = @ \cup {strategy}]
          /\ RecordScorings(IF ~config.Enabled THEN 0 ELSE IF stop THEN 1 ELSE 2,
                            newP, BuildExecResult(res), m.score)
          /\ ret' = [op |-> "smashJob.iteration", prog |-> newP,
                     result |-> BuildExecResult(res), enabled |-> config.Enabled,
                     strategy |-> strategy, stop |-> stop, score |-> m.score]
    /\ now' = now + 2
    /\ UNCHANGED <<config, smashUnchanged>>

\* The end of smashJob.run: the statistics are recorded when scoring is
\* enabled and a mutation was executed.
smashJob_Finish ==
    /\ smash.pc = "loop"
    /\ smash.i >= smash.iters
    /\ \E record \in {config.Enabled /\ smash.totalMutations > 0} :
          /\ scoreMetrics' =
                IF record
                THEN UpdateSmashStats(scoreMetrics, smash.successfulMutations,
                                      smash.totalMutations, smash.baseScore, now)
                ELSE scoreMetrics
          /\ ret' = [op |-> "smashJob.done", prog |-> smash.p, recorded |-> record,
                     enabled |-> smash.enabled, baseScore |-> smash.baseScore,
                     iters |-> smash.i, strategies |-> smash.strategies,
                     successfulMutations |-> smash.successfulMutations,
                     totalMutations |-> smash.totalMutations]
    /\ smash' = [smash EXCEPT !.pc = "none"]
    /\ UNCHANGED <<config, trackerVars, selectorVars, now, historyVars, maxSignal, jobs,
                   smashUnchanged>>

\* Outcomes scored before the job starts: one with total 0 and one with a
\* high total.
SmashSeeds == { ExecutionResult({}, 0, <<>>), ExecutionResult({2}, 1, <<"KASAN: x">>) }

SmashResults ==
    { WithStatus(Result(ProgInfo(1, CallInfo(<<1, 1>>)), <<>>), "Done") }

SmashSeedStep ==
    /\ smash.started = 0
    /\ \E result \in SmashSeeds : CallUpdateScore("p1", result, 1)
SmashConfigStep ==
    /\ config = DefaultScoreConfig
    /\ UpdateScoreConfig(DisabledScoreConfig)
SmashBaseStep == smashJob_Base("p1")
SmashItersStep == smashJob_Iters
SmashIterateStep ==
    \E res \in SmashResults, stop \in BOOLEAN : smashJob_Iterate("p2", res, stop, 1)
SmashFinishStep == smashJob_Finish

\* A smash job on a program scored before; the configuration is replaced
\* once.
NextSmash ==
    \/ SmashSeedStep
    \/ SmashConfigStep
    \/ SmashBaseStep
    \/ SmashItersStep
    \/ SmashIterateStep
    \/ SmashFinishStep

SpecSmash == InitTop /\ [][NextSmash]_vars

-----------------------------------------------------------------------------
(* Snapshots and sequential metrics *)

\* Fuzzer.GetScoreMetrics returns the pointer fuzzer.scoreMetrics itself: the
\* collaborator holds a reference to the one ScoreMetrics object.
GetScoreMetrics == <<"fuzzer.scoreMetrics">>

\* The ScoreMetrics a collaborator reads through its pointer.
Deref(p) == scoreMetrics

CallGetScoreMetrics ==
    /\ handed = <<>>
    /\ handed' = GetScoreMetrics
    /\ ret' = [op |-> "GetScoreMetrics"]
    /\ UNCHANGED <<config, trackerVars, selectorVars, scoreMetrics, now, historyVars,
                   calls, threadVars, observed, fuzzerVars>>

GetScoreMetricsStep == CallGetScoreMetrics

\* Results are processed while a collaborator holds the metrics.
NextSnapshot ==
    \/ ProcessResultStep
    \/ GetScoreMetricsStep

SpecSnapshot == InitTop /\ [][NextSnapshot]_vars

\* The totals recorded: multiples of 12 thousandths, which the running mean
\* of up to four values divides without a remainder; one of them lies above
\* 1.0, as a configuration whose weights exceed 1.0 produces.
MetricTotals == {0, (3 * SCALE) \div 10, (6 * SCALE) \div 10, (12 * SCALE) \div 10}

CallUpdateMetrics(score, scoreSelected, calculationTime) ==
    /\ calls < MaxTopCalls
    /\ scoreMetrics' = UpdateMetrics(scoreMetrics, score, scoreSelected,
                                     calculationTime, now)
    /\ observed' = Append(observed, [total |-> score, latency |-> calculationTime])
    /\ ret' = [op |-> "UpdateMetrics", score |-> score,
               scoreSelected |-> scoreSelected]
    /\ now' = now + 1
    /\ calls' = calls + 1
    /\ UNCHANGED <<config, trackerVars, selectorVars, historyVars, threadVars, handed, fuzzerVars>>

UpdateMetricsStep ==
    \E score \in MetricTotals, scoreSelected \in BOOLEAN, lat \in 1..MaxLatency :
        CallUpdateMetrics(score, scoreSelected, lat)

\* The ScoreMetrics updated by one goroutine.
NextMetrics ==
    \/ UpdateMetricsStep

SpecMetrics == InitTop /\ [][NextMetrics]_vars

-----------------------------------------------------------------------------
(* Properties *)

\* C1: with the scoring disabled, every UpdateScore call returns a score whose
\* total is 0.5 and leaves the score cache, the per-element hit counts, the
\* per-signature path frequencies and the execution-time samples as they were.
C1_DisabledUpdateScoreIsNeutral ==
    [][(ret'.op = "UpdateScore" /\ calls' = calls + 1 /\ ~config.Enabled) =>
          /\ ret'.score.Total = SCALE \div 2
          /\ scores' = scores
          /\ pcHitCounts' = pcHitCounts
          /\ pathFrequency' = pathFrequency
          /\ execTimeStats'.samples = execTimeStats.samples]_vars

\* A disabled UpdateScore of an outcome with coverage, a time and logs, on a
\* tracker that already holds a score.
C1_Witness ==
    /\ ret.op = "UpdateScore"
    /\ ~ret.enabled
    /\ ret.result.Signal # {}
    /\ ret.result.ExecTime > 0
    /\ ret.result.KernelLogs # <<>>
    /\ DOMAIN scores # {}
    /\ ret.score.Total = SCALE \div 2

\* C2: with the scoring disabled, processResult never changes the selector's
\* weights.
C2_DisabledLeavesWeights ==
    [][(ProcessResultStep /\ ~config.Enabled) => weights' = weights]_vars

\* C3: for an enabled tracker, an outcome's element counts as new only for the
\* first scored outcome that contains it, and its hit count is the number of
\* scored outcomes that contained it: it grows by one per such outcome and
\* never otherwise.
C3_HitCountsCountOutcomes ==
    /\ [](/\ \A pc \in PCs : pcHitCounts[pc] = scoredWith[pc]
          /\ (ret.op = "UpdateScore" /\ ret.enabled) =>
                ret.newPCs = {pc \in ret.result.Signal : scoredWith[pc] = 1})
    /\ [][\A pc \in PCs :
            pcHitCounts'[pc] =
                IF calls' # calls /\ ret'.enabled /\ pc \in ret'.result.Signal
                THEN pcHitCounts[pc] + 1 ELSE pcHitCounts[pc]]_vars

\* A scored outcome with one element seen before (not new, count 2) and one
\* seen for the first time.
C3_Witness ==
    /\ ret.op = "UpdateScore"
    /\ ret.enabled
    /\ \E pc \in ret.result.Signal : pcHitCounts[pc] = 2 /\ pc \notin ret.newPCs
    /\ \E pc \in ret.result.Signal : pcHitCounts[pc] = 1 /\ pc \in ret.newPCs

\* C4: the rarity of a scored outcome is computed from the frequency its
\* signature had before the call, which is the number of earlier scored
\* outcomes with that signature; the frequency goes up by one afterwards, and
\* the first outcome with a signature has rarity 1.0.
C4_RarityFromEarlierOutcomes ==
    /\ \A k \in Signatures : pathFrequency[k] = scoredSig[k]
    /\ (ret.op = "UpdateScore" /\ ret.enabled /\ ret.result.Signal # {}) =>
          LET k == SignalString(ret.result.Signal)
          IN  /\ ret.frequency = scoredSig[k] - 1
              /\ pathFrequency[k] = ret.frequency + 1
              /\ ret.score.Rarity = RarityOfFrequency(scoredSig[k] - 1)
              /\ (scoredSig[k] = 1 => ret.score.Rarity = SCALE)

\* The second scored outcome with a signature: frequency 1 before the call.
C4_Witness ==
    /\ ret.op = "UpdateScore"
    /\ ret.enabled
    /\ ret.result.Signal # {}
    /\ ret.frequency = 1
    /\ pathFrequency[SignalString(ret.result.Signal)] = 2

\* C5: the rarity is strictly decreasing in the prior frequency: of two
\* signatures, the one scored less often before (never included) gets the
\* strictly larger rarity.
C5_RarityStrictlyDecreasing ==
    \A a, b \in Signals \ {{}} :
        pathFrequency[SignalString(a)] < pathFrequency[SignalString(b)] =>
            calculateRarityScore(pathFrequency, ExecutionResult(a, 0, <<>>)).score
                > calculateRarityScore(pathFrequency, ExecutionResult(b, 0, <<>>)).score

InUnit(x) == 0 <= x /\ x <= SCALE

\* C6: under weights in [0,1] that sum to 1.0, every score UpdateScore returns
\* has its four dimensions and its total in [0,1], whatever the outcome and
\* the tracker's prior state.
C6_ScoresInUnitInterval ==
    (ret.op = "UpdateScore" /\ ret.enabled) =>
        /\ InUnit(ret.score.Coverage)
        /\ InUnit(ret.score.Rarity)
        /\ InUnit(ret.score.KernelLog)
        /\ InUnit(ret.score.TimeAnomaly)
        /\ InUnit(ret.score.Total)

\* An outcome whose time is more than two deviations from the mean (the
\* anomaly is cut to 1.0), with new coverage and a matching log.
C6_Witness ==
    /\ ret.op = "UpdateScore"
    /\ ret.enabled
    /\ ret.score.TimeAnomaly = SCALE
    /\ ret.score.Coverage > 0
    /\ ret.score.KernelLog = SCALE
    /\ config.TimeAnomalyWeight > 0

\* C7: GetScore only reads: it returns the score the most recent enabled
\* UpdateScore for that identity returned, or the neutral 0.5 when there was
\* none, the same on every repetition, and changes nothing in the tracker.
C7_GetScoreReadsLastWrite ==
    [][ret'.op = "GetScore" =>
          /\ ret'.score = IF ret'.prog \in DOMAIN lastScored
                          THEN lastScored[ret'.prog] ELSE NeutralScore
          /\ (ret.op = "GetScore" /\ ret.prog = ret'.prog => ret'.score = ret.score)
          /\ UNCHANGED trackerVars]_vars

\* GetScore of an identity that was scored twice returns the second score.
C7_Witness ==
    /\ ret.op = "GetScore"
    /\ ret.prog \in DOMAIN lastScored
    /\ ret.score = lastScored[ret.prog]
    /\ DOMAIN lastScored = {ret.prog}
    /\ ret.score.Timestamp >= 2

\* C8: GetTopScoredProgs(limit) returns min(limit, cached identities) distinct
\* cached identities in non-increasing order of total; no identity left out
\* has a larger total than one returned; with limit at or above the number
\* cached, every cached identity is returned.
C8_TopIsSortedPrefix ==
    ret.op = "GetTopScoredProgs" =>
        LET res == ret.result
            got == {res[i] : i \in DOMAIN res}
        IN  /\ Len(res) = Min(ret.limit, Cardinality(DOMAIN scores))
            /\ got \subseteq DOMAIN scores
            /\ Cardinality(got) = Len(res)
            /\ \A i \in 1..(Len(res) - 1) :
                  scores[res[i]].Total >= scores[res[i + 1]].Total
            /\ \A h \in DOMAIN scores \ got, g \in got :
                  scores[h].Total <= scores[g].Total
            /\ (ret.limit >= Cardinality(DOMAIN scores) => got = DOMAIN scores)

\* Two of three cached identities returned, with different totals among them.
C8_Witness ==
    /\ ret.op = "GetTopScoredProgs"
    /\ Cardinality(DOMAIN scores) = 3
    /\ Len(ret.result) = 2
    /\ scores[ret.result[1]].Total > scores[ret.result[2]].Total
    /\ \E h \in DOMAIN scores :
          /\ \A i \in DOMAIN ret.result : ret.result[i] # h
          /\ scores[h].Total < scores[ret.result[2]].Total

PositiveHashes == {h \in DOMAIN weights : weights[h] > 0}

\* C9: SelectWeighted returns "" exactly when no identity's latest weight is
\* above 0, and otherwise an identity whose latest weight is above 0, never
\* one that only an index built before the last UpdateWeight held.
C9_SelectsLatestPositive ==
    ret.op = "SelectWeighted" =>
        /\ (ret.hash = "") <=> (PositiveHashes = {})
        /\ (ret.hash # "") => (ret.hash \in PositiveHashes)

\* A selection made while one identity's latest weight is 0 or less and
\* another's is above 0.
C9_Witness ==
    /\ ret.op = "SelectWeighted"
    /\ ret.hash # ""
    /\ \E h \in DOMAIN weights : weights[h] <= 0
    /\ weights[ret.hash] > 0

RECURSIVE SumPositive(_, _)
SumPositive(wmap, hs) ==
    IF hs = {} THEN 0
    ELSE LET h == CHOOSE x \in hs : TRUE
         IN  (IF wmap[h] > 0 THEN wmap[h] ELSE 0) + SumPositive(wmap, hs \ {h})

\* C10: while needRebuild is false, the cumulative array and the identity
\* array have the same length, the cumulative values are non-decreasing, there
\* is one entry per identity with a weight above 0, and the last cumulative
\* value is the sum of the weights above 0.
C10_IndexMatchesWeights ==
    ~needRebuild =>
        /\ Len(cumulativeWeights) = Len(progHashes)
        /\ \A i \in 1..(Len(cumulativeWeights) - 1) :
              cumulativeWeights[i] <= cumulativeWeights[i + 1]
        /\ Len(progHashes) = Cardinality(PositiveHashes)
        /\ {progHashes[i] : i \in DOMAIN progHashes} = PositiveHashes
        /\ (cumulativeWeights # <<>> =>
              cumulativeWeights[Len(cumulativeWeights)]
                  = SumPositive(weights, DOMAIN weights))

\* An index of two identities, a third one left out for its weight.
C10_Witness ==
    /\ ~needRebuild
    /\ Len(cumulativeWeights) = 2
    /\ cumulativeWeights[1] < cumulativeWeights[2]
    /\ \E h \in DOMAIN weights : weights[h] <= 0

\* The index a linear scan of the cumulative array finds: the smallest one
\* whose prefix sum reaches the target.
LinearScan(cw, target) ==
    CHOOSE i \in DOMAIN cw :
        /\ cw[i] >= target
        /\ \A j \in 1..(i - 1) : cw[j] < target

\* C11: on a non-empty index, for every u in [0,1), SelectWeighted returns
\* the identity at the smallest index whose prefix sum is at least
\* u x totalWeight, which is what a linear scan of the cumulative array finds.
C11_BinarySearchIsLinearScan ==
    (ret.op = "SelectWeighted" /\ cumulativeWeights # <<>>) =>
        LET n == Len(cumulativeWeights)
            target == (ret.rnd * cumulativeWeights[n]) \div SCALE
        IN  /\ \E i \in 1..n : cumulativeWeights[i] >= target
            /\ ret.hash = progHashes[LinearScan(cumulativeWeights, target)]

\* A selection from an index of three identities that returns the middle one.
C11_Witness ==
    /\ ret.op = "SelectWeighted"
    /\ Len(progHashes) = 3
    /\ ret.hash = progHashes[2]
    /\ ret.rnd > 0

\* Uniform draws: u = 0, 1/20, ..., 19/20.
DrawGrid == {k * (SCALE \div 20) : k \in 0..19}

\* The number of grid draws for which SelectWeighted returns hash.
DrawCount(hash) ==
    Cardinality({u \in DrawGrid : SelectWeighted(Selector, <<>>, u).hash = hash})

\* C12: selection is proportional to weight: over uniform draws each
\* identity of the index is returned for the share weight / total of them (to
\* within one draw of the grid), so an identity of weight 0.9 beside one of
\* weight 0.1 gets about 90% of the draws, and a heavier identity gets more
\* draws than a lighter one.
C12_SelectionProportionalToWeight ==
    (~needRebuild /\ cumulativeWeights # <<>>) =>
        LET total == cumulativeWeights[Len(cumulativeWeights)]
            draws == Cardinality(DrawGrid)
        IN  /\ \A h \in PositiveHashes :
                  Abs(DrawCount(h) * total - draws * weights[h]) <= total
            /\ \A h, g \in PositiveHashes :
                  weights[h] > weights[g] => DrawCount(h) > DrawCount(g)

\* Weights 0.1 and 0.9: the heavier identity gets 17 to 19 of the 20 draws.
C12_Witness ==
    /\ ~needRebuild
    /\ ret.op = "SelectWeighted"
    /\ Len(progHashes) = 2
    /\ \E h, g \in PositiveHashes :
          /\ weights[h] = SCALE \div 10
          /\ weights[g] = (9 * SCALE) \div 10
          /\ DrawCount(g) >= 17 /\ DrawCount(g) <= 19
          /\ DrawCount(h) + DrawCount(g) = Cardinality(DrawGrid)

AllEqual(samples) == \A i, j \in DOMAIN samples : samples[i] = samples[j]

C15_BoundedFifo ==
    ret.op = "AddSample" =>
        LET samples == execTimeStats.samples
            n == Len(samples)
        IN  /\ n <= execTimeStats.maxSamples
            /\ n >= 1
            /\ samples[n] = ret.execTime
            /\ \A i \in 1..n : samples[i] = calls - n + i

\* The categories matched by at least one non-blank line, and the severities
\* of the patterns that matched.
MatchingPatterns(pats, logs) ==
    {k \in DOMAIN pats :
        \E i \in DOMAIN logs :
            /\ TrimSpace(logs[i]) # ""
            /\ MatchString(pats[k].Pattern, TrimSpace(logs[i]))}

MatchedCategories(pats, logs) ==
    {pats[k].Description : k \in MatchingPatterns(pats, logs)}

HighestSeverity(pats, logs) ==
    LET severities == {0} \cup {pats[k].Score : k \in MatchingPatterns(pats, logs)}
    IN  CHOOSE m \in severities : \A x \in severities : x <= m

SeededScore(logs) ==
    /\ patterns = initializePatterns
    /\ ret.op = "CalculateScore"
    /\ ret.logs = logs

\* C17: with the seeded table the two lines "WARNING: x" and "possible
\* deadlock" score 0.5 + 0.1 = 0.6.
C17_WarningAndDeadlockScoreSixTenths ==
    SeededScore(<<"WARNING: x", "possible deadlock">>) => ret.score = Pct(60)

\* C17, amended: with the seeded table the two lines "WARNING: x" and
\* "possible deadlock" score 0.7 + 0.1 = 0.8.
C17_WarningAndDeadlockScoreEightTenths ==
    SeededScore(<<"WARNING: x", "possible deadlock">>)
        => ret.score = Pct(70) + Pct(10)

C17_Witness ==
    /\ SeededScore(<<"WARNING: x", "possible deadlock">>)
    /\ ret.score = Pct(80)

C19_TestTableScores ==
    /\ SeededScore(<<"KASAN: use-after-free">>) => ret.score = Pct(90)
    /\ SeededScore(<<"WARNING: suspicious RCU usage">>) => ret.score = Pct(70)
    /\ SeededScore(<<"ERROR: AddressSanitizer">>) => ret.score = Pct(80)
    /\ SeededScore(<<"kernel BUG at">>) => ret.score = Pct(95)
    /\ SeededScore(<<"normal log message">>) => ret.score = 0
    /\ SeededScore(<<"">>) => ret.score = 0
    /\ SeededScore(<<"KASAN: use-after-free", "WARNING: suspicious RCU usage">>)
           => ret.score > Pct(70)

\* The logs whose score is compared across AddCustomPattern: every single line
\* and the pairs of the documented examples.
ComparedLogs ==
    {logs \in MatcherLogs : Len(logs) <= 1}
        \cup { <<"WARNING: x", "possible deadlock">>, <<"WARNING: x", "KASAN: y">>,
               <<"KASAN: use-after-free", "WARNING: suspicious RCU usage">>,
               <<"WARNING: suspicious RCU usage", "WARNING: x">> }

\* C20: AddCustomPattern with an expression that does not compile returns an
\* error and leaves the table as it was; with a valid one it appends one entry
\* at the end, the entries before it stay as they were, and the score of logs
\* no line of which matches the new pattern does not change.
C20_AddCustomPatternAppends ==
    [][ret'.op = "AddCustomPattern" /\ calls' = calls + 1 =>
        IF CompileError(ret'.regex)
        THEN ret'.err /\ patterns' = patterns
        ELSE /\ ~ret'.err
             /\ Len(patterns') = Len(patterns) + 1
             /\ SubSeq(patterns', 1, Len(patterns)) = patterns
             /\ patterns'[Len(patterns')] =
                    LogPattern(ret'.regex, ret'.score, ret'.description)
             /\ \A logs \in ComparedLogs :
                    (\A i \in DOMAIN logs :
                        ~MatchString(patterns'[Len(patterns')].Pattern,
                                     TrimSpace(logs[i])))
                    => CalculateScore(patterns', logs) = CalculateScore(patterns, logs)
    ]_vars

\* A valid and an invalid expression have both been given.
C20_Witness ==
    /\ ret.op = "AddCustomPattern"
    /\ ret.err
    /\ Len(patterns) = Len(initializePatterns) + 1
    /\ patterns[Len(patterns)].Description = "Soft lockup"

RECURSIVE SumTotals(_)
SumTotals(obs) == IF obs = <<>> THEN 0 ELSE Head(obs).total + SumTotals(Tail(obs))

ObservedTotals == {observed[i].total : i \in DOMAIN observed}

\* C25: after n >= 1 sequential UpdateMetrics calls TotalRequests is n,
\* AverageScore is the arithmetic mean of the totals, MinScore and MaxScore are
\* their minimum and maximum, MinScore <= AverageScore <= MaxScore, and the
\* initial MinScore 1.0 and MaxScore 0 take no part.
C25_RunningMinMeanMax ==
    (ret.op = "UpdateMetrics" /\ Len(observed) >= 1) =>
        LET n == Len(observed)
        IN  /\ scoreMetrics.TotalRequests = n
            /\ scoreMetrics.AverageScore * n = SumTotals(observed)
            /\ scoreMetrics.MinScore \in ObservedTotals
            /\ scoreMetrics.MaxScore \in ObservedTotals
            /\ \A x \in ObservedTotals :
                   scoreMetrics.MinScore <= x /\ x <= scoreMetrics.MaxScore
            /\ scoreMetrics.MinScore <= scoreMetrics.AverageScore
            /\ scoreMetrics.AverageScore <= scoreMetrics.MaxScore

\* Three different totals, the first of them above the initial MinScore.
C25_Witness ==
    /\ ret.op = "UpdateMetrics"
    /\ Len(observed) = 3
    /\ observed[1].total > SCALE
    /\ scoreMetrics.MinScore < scoreMetrics.AverageScore
    /\ scoreMetrics.AverageScore < scoreMetrics.MaxScore

\* C30: a missing dimension is local to it.  An outcome with elapsed time 0
\* gets time anomaly 0 and adds no sample; an outcome without signal gets
\* coverage 0 and rarity 0 and leaves pcHitCounts and pathFrequency as they
\* were; in both cases the other dimensions are computed as usual and the
\* score is recorded for the identity.
C30_MissingDimensionIsLocal ==
    [][(/\ ret'.op = "UpdateScore"
        /\ ret'.enabled
        /\ (ret'.result.ExecTime = 0 \/ ret'.result.Signal = {})) =>
        LET result == ret'.result
            score == ret'.score
        IN  /\ result.ExecTime = 0 =>
                   /\ score.TimeAnomaly = 0
                   /\ execTimeStats' = execTimeStats
            /\ result.ExecTime > 0 =>
                   /\ score.TimeAnomaly =
                          CalculateAnomalyScore(execTimeStats, result.ExecTime).score
                   /\ execTimeStats'.count = execTimeStats.count + 1
            /\ result.Signal = {} =>
                   /\ score.Coverage = 0
                   /\ score.Rarity = 0
                   /\ pcHitCounts' = pcHitCounts
                   /\ pathFrequency' = pathFrequency
            /\ result.Signal # {} =>
                   /\ score.Coverage = calculateCoverageScore(pcHitCounts, result).score
                   /\ score.Rarity = calculateRarityScore(pathFrequency, result).score
                   /\ pathFrequency'[SignalString(result.Signal)]
                          = pathFrequency[SignalString(result.Signal)] + 1
            /\ score.KernelLog = calculateKernelLogScore(patterns, result)
            /\ score.Total = WeightedTotal(config, score.Coverage, score.Rarity,
                                           score.KernelLog, score.TimeAnomaly)
            /\ ret'.prog \in DOMAIN scores'
            /\ scores'[ret'.prog] = score
    ]_vars

\* An outcome without signal and without time whose log still scores.
C30_Witness ==
    /\ ret.op = "UpdateScore"
    /\ ret.enabled
    /\ ret.result.Signal = {}
    /\ ret.result.ExecTime = 0
    /\ ret.score.KernelLog = SCALE
    /\ ret.score.Total > 0
    /\ ret.prog \in DOMAIN scores
    /\ Len(execTimeStats.samples) = MinSamples

\* C24: the ScoreMetrics handed out by GetScoreMetrics is a snapshot: what
\* the collaborator reads from it does not change when further results are
\* recorded.
C24_HandedMetricsAreSnapshot ==
    [][(handed # <<>> /\ handed' = handed) => Deref(handed)' = Deref(handed)]_vars

\* C28: the cached mean and deviation are used only while they are fresh: a
\* goroutine that reads them in CalculateAnomalyScore or GetStats finds the
\* dirty flag clear and the cache equal to what the sample buffer gives.
C28_ReadersUseFreshStatistics ==
    \A w \in Workers :
        ctl[w] \in {"CalculateAnomalyScore_read", "GetStats_read"} =>
            /\ ~execTimeStats.needRecalc
            /\ execTimeStats = recalculateStats(execTimeStats)

\* C27: rebuild and selection are one step under the exclusive lock.  When a
\* SelectWeighted searches the index, the index is not stale, its two arrays
\* have the same length and hold the identities whose weight is above 0 with
\* their sum as the last prefix sum, and what it returns is one of these
\* identities ("" when there is none): the weight map of that instant.
C27_SearchSeesWholeIndex ==
    [][\A w \in Workers :
         (ctl[w] = "SelectWeighted_search" /\ ctl'[w] = "idle") =>
            /\ locks.ws.writer = <<w>>
            /\ ~needRebuild
            /\ Len(cumulativeWeights) = Len(progHashes)
            /\ {progHashes[i] : i \in DOMAIN progHashes} = PositiveHashes
            /\ Len(progHashes) = Cardinality(PositiveHashes)
            /\ (cumulativeWeights # <<>> =>
                  cumulativeWeights[Len(cumulativeWeights)]
                      = SumPositive(weights, DOMAIN weights))
            /\ ret'.op = "SelectWeighted"
            /\ IF PositiveHashes = {} THEN ret'.hash = ""
               ELSE ret'.hash \in PositiveHashes
    ]_vars

\* A search of a rebuilt index of two identities while the other goroutine
\* waits for the lock.
C27_Witness ==
    \E w, v \in Workers :
        /\ ctl[w] = "SelectWeighted_search"
        /\ locks.ws.writer = <<w>>
        /\ ctl[v] \in {"UpdateWeight", "SelectWeighted"}
        /\ Len(progHashes) = 2

\* C21: concurrent UpdateScore calls on one enabled tracker do not lose an
\* increment.  Whenever no call is in progress, every hit counter holds the
\* number of scored outcomes that contained its element, every signature
\* frequency the number of scored outcomes with that signature, as after the
\* same calls one after the other, and every identity scored has a cached
\* score.
C21_NoLostIncrement ==
    (\A w \in Workers : ctl[w] = "idle") =>
        /\ pcHitCounts = scoredWith
        /\ pathFrequency = scoredSig
        /\ DOMAIN scores = DOMAIN lastScored
        /\ locks.st = Unlocked

\* Both goroutines have returned from scoring outcomes that share an element.
C21_Witness ==
    /\ \A w \in Workers : ctl[w] = "idle"
    /\ DOMAIN scores = {"p1", "p2"}
    /\ \E pc \in PCs : pcHitCounts[pc] = 2

\* C26: each UpdateScore call takes the enabled flag and the four weights from
\* one configuration: the loads of st.config made by one call all see the
\* same configuration.
C26_OneConfigGeneration ==
    \A w \in Workers : \A i, j \in DOMAIN local[w].cfgs :
        local[w].cfgs[i] = local[w].cfgs[j]

\* The sum of the latencies of a sequence of observations.
RECURSIVE SumLatencies(_)
SumLatencies(obs) ==
    IF obs = <<>> THEN 0 ELSE Head(obs).latency + SumLatencies(Tail(obs))

\* C22: no update of the metrics is lost.  Whenever no processResult call is
\* in progress, TotalRequests is the number of completed calls and
\* TotalScoreCalculationTime the sum of their latencies.
C22_NoLostMetricsUpdate ==
    (\A w \in Workers : ctl[w] = "idle") =>
        /\ scoreMetrics.TotalRequests = Len(observed)
        /\ scoreMetrics.TotalScoreCalculationTime = SumLatencies(observed)

\* C23: UpdateDimensionScores runs with the count its own observation's
\* UpdateMetrics produced: when a goroutine runs it, sm.TotalRequests is the
\* value this goroutine's increment stored.
C23_DimensionsUseOwnCount ==
    [][\A w \in Workers :
         (ctl[w] = "UpdateDimensionScores" /\ ctl'[w] # ctl[w]) =>
             scoreMetrics.TotalRequests = local[w].n
    ]_vars

\* The locks goroutine w holds.
Holds(w) ==
    {m \in {"st", "ts", "klm", "ws"} : locks[m].writer = <<w>> \/ w \in locks[m].readers}

\* C29: no operation blocks indefinitely.  Every call a goroutine is inside
\* eventually returns, that is, every goroutine is again and again outside
\* any call, and a goroutine that is outside any call holds no lock.
C29_EveryCallReturns ==
    /\ [](\A w \in Workers : ctl[w] = "idle" => Holds(w) = {})
    /\ \A w \in Workers : []<>(ctl[w] = "idle")

\* A goroutine waits for the write lock of TimeStats, between its two read
\* locks, while the other goroutine holds that lock inside UpdateScore.
C29_Witness ==
    \E w, v \in Workers :
        /\ ctl[w] \in {"CalculateAnomalyScore_lock", "GetStats_lock"}
        /\ locks.ts.writer = <<v>>
        /\ locks.st.writer = <<v>>

\* C39: in a WeightedQueue the request list and the weight list have the
\* same length, every stored weight is above 0, and totalWeight is the sum of
\* the stored weights.
C39_QueueWeightsConsistent ==
    /\ Len(queue.requests) = Len(queue.weights)
    /\ \A i \in DOMAIN queue.weights : queue.weights[i] > 0
    /\ queue.totalWeight = SumSeq(queue.weights)
    /\ \A i \in DOMAIN queue.requests :
          queue.weights[i] = IF queue.requests[i].Score <= 0 THEN MinWeight
                             ELSE queue.requests[i].Score

\* A request with a score below 0 is queued behind another one, after a
\* request was taken out.
C39_Witness ==
    /\ Len(queue.requests) = 2
    /\ queue.requests[2].Score < 0
    /\ queue.requests[2].id = 3

\* C40: NextWeighted returns nil exactly when the queue is empty; otherwise
\* it returns one queued request, marked ScoreSelected, and leaves the other
\* requests in their order, one fewer than before.
C40_NextWeightedTakesOne ==
    [][ret'.op = "NextWeighted" =>
         IF queue.requests = <<>>
         THEN ret'.req = <<>> /\ queue' = queue
         ELSE /\ ret'.req # <<>>
              /\ \E i \in DOMAIN queue.requests :
                    /\ ret'.req[1] = [queue.requests[i] EXCEPT !.ScoreSelected = TRUE]
                    /\ queue'.requests = Without(queue.requests, i)
              /\ Len(queue'.requests) = Len(queue.requests) - 1
              /\ \A i \in DOMAIN queue'.requests : queue'.requests[i].id # ret'.req[1].id
    ]_vars

\* The first of three queued requests was taken.
C40_Witness ==
    /\ ret.op = "NextWeighted"
    /\ ret.index = 1
    /\ Len(queue.requests) = 2

C32_SelectorInStepWithTracker ==
    (\A w \in Workers : ctl[w] = "idle") =>
        \A p \in DOMAIN scores :
            /\ p \in DOMAIN weights
            /\ weights[p] = scores[p].Total

\* C33: genFuzz always returns a request, with scoring enabled or disabled,
\* and also when the weighted path finds no scored program or the chosen
\* identity is not in the corpus: then the request comes from the default
\* mutate/generate path.  Fuzzer.Next never gets a nil request.
C33_GenFuzzNeverNil ==
    ret.op = "Next" =>
        /\ Len(ret.req) = 1
        /\ ret.req[1].Prog \in Progs
        /\ (ret.source = "genFuzz" /\ ~(ret.enabled /\ ret.weighted /\ ret.found)) =>
               /\ ~ret.req[1].weighted
               /\ ret.req[1].Stat \in {"statExecFuzz", "statExecGenerate", "statExecCollide"}
        /\ (ret.source = "genFuzz" /\ ~ret.enabled) => ~ret.req[1].weighted

\* The weighted path was taken with a scored program that is not in the
\* corpus, and a request came back.
C33_Witness ==
    /\ ret.op = "Next"
    /\ ret.source = "genFuzz"
    /\ ret.enabled
    /\ ret.weighted
    /\ ~ret.found
    /\ DOMAIN scores # {}
    /\ DOMAIN scores \cap corpus = {}
    /\ ret.req # <<>>

\* C34: when a request produced by the weighted-selection path of genFuzz is
\* executed and its result processed, ScoreSelectedRequests increases by one.
C34_WeightedRequestsCounted ==
    [][(ret'.op = "processResult" /\ ret'.req.weighted) =>
          scoreMetrics'.ScoreSelectedRequests = scoreMetrics.ScoreSelectedRequests + 1
    ]_vars

\* The candidates among the requests of a sequence.
CandidatesIn(reqs) == {i \in DOMAIN reqs : "progCandidate" \in reqs[i].flags}

\* C38: candidate accounting is exact.  statCandidates is the number of
\* candidates added and not yet finished, so it is never negative and is 0
\* once all candidates are processed; processResult decrements it exactly
\* when it returns true for a candidate; a corpus candidate without triage
\* is enqueued again with attempt+1, without a decrement, while its attempt
\* is below 3, or 2 for a risky request, or 0 for a risky request in
\* snapshot mode or after a hang.
C38_CandidateAccounting ==
    /\ [](/\ statCandidates >= 0
          /\ statCandidates = Cardinality(CandidatesIn(candidateQueue))
                                + Cardinality(CandidatesIn(executing))
          /\ \A i \in DOMAIN candidateQueue : candidateQueue[i].attempt <= 3)
    /\ [][(ret'.op = "processResult" /\ "progCandidate" \in ret'.req.flags) =>
          LET req == ret'.req
              res == ret'.res
              limit == IF ret'.risky
                       THEN (IF options.Snapshot \/ res.Status = "Hanged" THEN 0 ELSE 2)
                       ELSE 3
              noTriage == \/ res.Info = <<>>
                          \/ res.Status = "Hanged"
                          \/ FromRaw(res.Info[1].Extra[1].Signal) \subseteq maxSignal
          IN  /\ ret'.done = ~(noTriage /\ "ProgFromCorpus" \in req.flags
                                 /\ req.attempt < limit)
              /\ ret'.done =>
                    /\ statCandidates' = statCandidates - 1
                    /\ candidateQueue' = candidateQueue
              /\ ~ret'.done =>
                    /\ statCandidates' = statCandidates
                    /\ candidateQueue' =
                          Append(candidateQueue, [req EXCEPT !.attempt = req.attempt + 1])
       ]_vars

\* A corpus candidate finished on its fourth execution, and no candidate is
\* left.
C38_Witness ==
    /\ ret.op = "processResult"
    /\ ret.done
    /\ ret.req.attempt = 3
    /\ "ProgFromCorpus" \in ret.req.flags
    /\ statCandidates = 0
    /\ candidateQueue = <<>>
    /\ executing = <<>>

\* C35: every execution is folded into the ScoreTracker exactly once: for
\* each executed request, the mutants of a smash job included, pcHitCounts,
\* pathFrequency and the time samples grow by one observation.
C35_OneUpdateScorePerExecution ==
    [][(/\ ret'.op \in {"processResult", "smashJob.iteration"}
        /\ ret'.enabled
        /\ ret'.prog # Nil) =>
        LET result == ret'.result
        IN  /\ \A pc \in PCs :
                  pcHitCounts'[pc] = pcHitCounts[pc] + (IF pc \in result.Signal THEN 1 ELSE 0)
            /\ result.Signal # {} =>
                  pathFrequency'[SignalString(result.Signal)]
                      = pathFrequency[SignalString(result.Signal)] + 1
            /\ execTimeStats'.count
                  = execTimeStats.count + (IF result.ExecTime > 0 THEN 1 ELSE 0)
    ]_vars

\* C36: the iteration count and the mutation strategy of a smash job are
\* fixed by the base score read at its start.  With scoring enabled the job
\* runs at most int(15 + 35 * base) iterations, conservative iff base > 0.7,
\* aggressive iff base < 0.3, standard otherwise; with scoring disabled it
\* runs at most 25 standard iterations.  Statistics are recorded only when
\* scoring is enabled, a mutation was executed and the job was not stopped,
\* and successful mutations are at most the total.
C36_SmashFixedByBaseScore ==
    [][LET base == smash.baseScore
           limit == IF smash.enabled THEN (15 * SCALE + 35 * base) \div SCALE ELSE 25
           strategy == IF smash.enabled /\ base > Pct(70) THEN "conservative"
                       ELSE IF smash.enabled /\ base < Pct(30) THEN "aggressive"
                       ELSE "standard"
       IN  /\ ret'.op = "smashJob.iteration" =>
                 /\ smash.i < limit
                 /\ ret'.strategy = strategy
                 /\ smash'.successfulMutations <= smash'.totalMutations
           /\ ret'.op = "smashJob.done" =>
                 /\ ret'.iters <= limit
                 /\ ret'.recorded = (smash.enabled /\ smash.totalMutations > 0)
                 /\ ret'.recorded =>
                       /\ scoreMetrics'.TotalSmashJobs = scoreMetrics.TotalSmashJobs + 1
                       /\ scoreMetrics'.TotalSmashMutations
                             = scoreMetrics.TotalSmashMutations + smash.totalMutations
                       /\ scoreMetrics'.SuccessfulMutations
                             = scoreMetrics.SuccessfulMutations + smash.successfulMutations
                 /\ ~ret'.recorded => scoreMetrics' = scoreMetrics
    ]_vars

-----------------------------------------------------------------------------
(* triageJob.deflake *)

deflakeNeedRuns == 3
deflakeMaxRuns == 5
deflakeNeedCorpusRuns == 2
deflakeMinCorpusRuns == 4
deflakeMaxCorpusRuns == 6
deflakeTotalCorpusRuns == 20
deflakeNeedSnapshotRuns == 2

\* needRuns of deflake.
deflakeRuns(opts, flags) ==
    IF opts.Snapshot THEN deflakeNeedSnapshotRuns
    ELSE IF "ProgFromCorpus" \notin flags THEN deflakeNeedRuns
    ELSE deflakeNeedCorpusRuns

\* Signal.IntersectsWith.
IntersectsWith(a, b) == a \cap b # {}

\* totalNewSignal of an iteration of deflake.
RECURSIVE totalNewSignal(_, _)
totalNewSignal(jobCalls, cs) ==
    IF cs = {} THEN 0
    ELSE LET c == CHOOSE x \in cs : TRUE
         IN  Cardinality(jobCalls[c].newSignal) + totalNewSignal(jobCalls, cs \ {c})

\* triageJob.stopDeflake; signals[k] of the code is signals[k + 1] here.
stopDeflake(opts, flags, jobCalls, run, needRuns, noNewSignal) ==
    IF opts.Snapshot THEN run >= needRuns + 1
    ELSE LET haveSignal == \A c \in DOMAIN jobCalls :
                 IntersectsWith(jobCalls[c].newSignal, jobCalls[c].signals[needRuns])
             left == deflakeMaxRuns - run
             noChance == \A c \in DOMAIN jobCalls :
                 ~(\/ left >= needRuns
                   \/ IntersectsWith(jobCalls[c].newSignal,
                                     jobCalls[c].signals[needRuns - left]))
         IN  IF "ProgFromCorpus" \notin flags
             THEN run >= deflakeMaxRuns \/ haveSignal \/ noChance
             ELSE \/ run >= deflakeTotalCorpusRuns
                  \/ /\ noNewSignal
                     /\ \/ run >= deflakeMaxCorpusRuns
                        \/ run >= deflakeMinCorpusRuns /\ haveSignal

\* The closure deflakeCall of deflake on the pointer res of call: the max
\* signal and job.calls left behind.
deflakeCall(maxSig, jobCalls, call, res, needRuns) ==
    LET r == IF call \in DOMAIN jobCalls
             THEN [maxSignal |-> maxSig, triage |-> jobCalls]
             ELSE triageProgCall(maxSig, res, call, jobCalls)
    IN  IF call \notin DOMAIN r.triage \/ res = <<>> THEN r
        ELSE LET info == r.triage[call]
                 added == addRawMaxSignal(r.maxSignal, res[1].Signal)
                 thisSignal == FromRaw(res[1].Signal)
                 merged == [j \in 1..deflakeNeedRuns |->
                              IF j = 1 THEN info.signals[1] \cup thisSignal
                              ELSE IF j <= needRuns
                                   THEN info.signals[j]
                                          \cup (info.signals[j - 1] \cap thisSignal)
                                   ELSE info.signals[j]]
             IN  [maxSignal |-> added.maxSignal,
                  triage |-> [r.triage EXCEPT ![call] =
                                [newSignal |-> info.newSignal \cup added.new,
                                 signals |-> merged]]]

\* for i, callInfo := range result.Info.Calls { deflakeCall(i, callInfo) }
RECURSIVE deflakeCalls(_, _, _, _, _)
deflakeCalls(maxSig, jobCalls, callInfos, i, needRuns) ==
    IF i > Len(callInfos) THEN [maxSignal |-> maxSig, triage |-> jobCalls]
    ELSE LET r == deflakeCall(maxSig, jobCalls, i - 1, callInfos[i], needRuns)
         IN  deflakeCalls(r.maxSignal, r.triage, callInfos, i + 1, needRuns)

\* The calls of the programs triaged: call 0 and the extra call -1.
TriageCallIds == {0 - 1, 0}
SignalElems == 1..2

\* The signal of call c in the execution result res, {} when the call has
\* no info.
SignalOf(res, c) ==
    IF res.Info = <<>> THEN {}
    ELSE LET info == IF c = 0 - 1 THEN res.Info[1].Extra
                     ELSE IF c + 1 \in DOMAIN InfoCalls(res.Info[1])
                          THEN InfoCalls(res.Info[1])[c + 1] ELSE <<>>
         IN  IF info = <<>> THEN {} ELSE FromRaw(info[1].Signal)

\* In how many executions of the program, up to deflakeNeedRuns, each
\* signal element of each call was observed, after one more execution.
Observe(seen, res) ==
    [c \in TriageCallIds |-> [e \in SignalElems |->
        IF e \in SignalOf(res, c) THEN Min(seen[c][e] + 1, deflakeNeedRuns)
        ELSE seen[c][e]]]

deflakeUnchanged ==
    <<scoringVars, ret, calls, threadVars, observed, handed, queue, options,
      corpus, candidateQueue, executing, statCandidates, jobs, smash>>

\* processResult finds new signal in res, starts the triage job and the job
\* enters deflake.
triageJob_Start(flags, res) ==
    /\ triageJob.pc = "none"
    /\ \E tr \in {triageResult(maxSignal,
                               prepare(Request("p1", TRUE, "statExecFuzz"), flags, 0),
                               res)} :
          /\ DOMAIN tr.triage # {}
          /\ maxSignal' = tr.maxSignal
          /\ triageJob' = [pc |-> "deflake", flags |-> flags,
                           needRuns |-> deflakeRuns(options, flags),
                           run |-> 1, prevTotalNewSignal |-> 0,
                           calls |-> tr.triage, execs |-> 1,
                           seen |-> Observe([c \in TriageCallIds |->
                                               [e \in SignalElems |-> 0]], res),
                           stableSignal |-> <<>>]
    /\ UNCHANGED deflakeUnchanged

\* An iteration of the loop of deflake that executes the program.
deflake_Iterate(result) ==
    /\ triageJob.pc = "deflake"
    /\ \E total \in {totalNewSignal(triageJob.calls, DOMAIN triageJob.calls)} :
          /\ ~stopDeflake(options, triageJob.flags, triageJob.calls, triageJob.run,
                          triageJob.needRuns, triageJob.prevTotalNewSignal = total)
          /\ IF result.Status = "Stopped"
             THEN /\ triageJob' = [triageJob EXCEPT !.pc = "stopped",
                                     !.prevTotalNewSignal = total, !.execs = @ + 1]
                  /\ UNCHANGED maxSignal
             ELSE IF result.Info = <<>>
             THEN /\ triageJob' = [triageJob EXCEPT !.run = @ + 1,
                                     !.prevTotalNewSignal = total, !.execs = @ + 1]
                  /\ UNCHANGED maxSignal
             ELSE \E r \in {deflakeCalls(maxSignal, triageJob.calls,
                                         InfoCalls(result.Info[1]), 1,
                                         triageJob.needRuns)} :
                  \E r2 \in {deflakeCall(r.maxSignal, r.triage, 0 - 1,
                                         result.Info[1].Extra, triageJob.needRuns)} :
                     /\ maxSignal' = r2.maxSignal
                     /\ triageJob' = [triageJob EXCEPT !.run = @ + 1,
                                        !.prevTotalNewSignal = total,
                                        !.execs = @ + 1,
                                        !.calls = r2.triage,
                                        !.seen = Observe(@, result)]
    /\ UNCHANGED deflakeUnchanged

\* The loop of deflake stops and the stable signal of each call is taken.
deflake_Complete ==
    /\ triageJob.pc = "deflake"
    /\ stopDeflake(options, triageJob.flags, triageJob.calls, triageJob.run,
                   triageJob.needRuns,
                   triageJob.prevTotalNewSignal
                      = totalNewSignal(triageJob.calls, DOMAIN triageJob.calls))
    /\ triageJob' = [triageJob EXCEPT !.pc = "done",
                       !.stableSignal = [c \in DOMAIN triageJob.calls |->
                                           triageJob.calls[c].signals[triageJob.needRuns]]]
    /\ UNCHANGED <<maxSignal, deflakeUnchanged>>

\* The raw signals a call reports, <<>> for a call without info.
DeflakeCallInfos == {<<>>, CallInfo(<<>>), CallInfo(<<1>>), CallInfo(<<2>>), CallInfo(<<1, 2>>)}

\* The results of executing the triaged program: no info, stopped, or the
\* info of call 0 and of the extra call.
DeflakeResults ==
    {WithStatus(Result(<<>>, <<>>), "Done"), WithStatus(Result(<<>>, <<>>), "Stopped")}
    \cup {WithStatus(Result(ProgInfoCalls(1, <<c>>, x), <<>>), "Done") :
            c \in DeflakeCallInfos, x \in DeflakeCallInfos}

TriageStartStep ==
    \E flags \in {{}, {"ProgFromCorpus"}}, res \in DeflakeResults :
        triageJob_Start(flags, res)

DeflakeIterateStep == \E result \in DeflakeResults : deflake_Iterate(result)

DeflakeCompleteStep == deflake_Complete

InitDeflake ==
    \E opts \in {o \in LoopOptions : ~o.Collide} : ConstructWith(DisabledScoreConfig, opts)

NextDeflake ==
    \/ TriageStartStep
    \/ DeflakeIterateStep
    \/ DeflakeCompleteStep

SpecDeflake == InitDeflake /\ [][NextDeflake]_vars

\* C37: while deflake runs and when it completes, signals[j] of every call
\* of the job holds exactly the signal elements that were observed for that
\* call in at least j+1 of the executions so far (the initial execution
\* included) for every j below needRuns, the stable signal is
\* signals[needRuns-1], and the program was executed at most deflakeMaxRuns
\* times for a fuzzing program and at most deflakeTotalCorpusRuns times for
\* a corpus program.
C37_DeflakeCountsRuns ==
    triageJob.pc \in {"deflake", "done"} =>
        /\ \A c \in DOMAIN triageJob.calls : \A j \in 1..triageJob.needRuns :
              triageJob.calls[c].signals[j]
                 = {e \in SignalElems : triageJob.seen[c][e] >= j}
        /\ triageJob.pc = "done" =>
              \A c \in DOMAIN triageJob.calls :
                 triageJob.stableSignal[c]
                    = triageJob.calls[c].signals[triageJob.needRuns]
        /\ ~options.Snapshot /\ "ProgFromCorpus" \notin triageJob.flags =>
              triageJob.execs <= deflakeMaxRuns
        /\ ~options.Snapshot /\ "ProgFromCorpus" \in triageJob.flags =>
              triageJob.execs <= deflakeTotalCorpusRuns

=============================================================================
